---------------------------- MODULE Spec2Model ----------------------------
(***************************************************************************)
(* State-machine model of src/chat_server.py (class ChatServer).           *)
(*                                                                         *)
(* The server is a cooperative asyncio program: code between two awaits    *)
(* runs atomically, and every outbound websocket.send / ping / close is a  *)
(* point where the event loop may switch to another task.  The model keeps *)
(* one call stack per task (one task per connection's handle_client, plus  *)
(* the heartbeat task).  A step of the model runs one task from where it   *)
(* is suspended to its next await.                                         *)
(*                                                                         *)
(* Usernames and room names are sequences of one-character strings so      *)
(* that the validators (regex, length, lower()) are computed, not assumed. *)
(***************************************************************************)
EXTENDS Integers, Sequences, FiniteSets, TLC

(***************************************************************************)
(* Characters and strings                                                  *)
(***************************************************************************)
LowerCase == <<"a","b","c","d","e","f","g","h","i","j","k","l","m",
               "n","o","p","q","r","s","t","u","v","w","x","y","z">>
UpperCase == <<"A","B","C","D","E","F","G","H","I","J","K","L","M",
               "N","O","P","Q","R","S","T","U","V","W","X","Y","Z">>
DigitChar == <<"0","1","2","3","4","5","6","7","8","9">>

Range(s) == {s[i] : i \in DOMAIN s}

\* the character class [a-zA-Z0-9_-] of validate_username / validate_room_name
NameChars == Range(LowerCase) \cup Range(UpperCase) \cup Range(DigitChar) \cup {"_", "-"}

\* str.lower() on one character
LowerChar(ch) ==
  IF \E i \in DOMAIN UpperCase : UpperCase[i] = ch
  THEN LowerCase[CHOOSE i \in DOMAIN UpperCase : UpperCase[i] = ch]
  ELSE ch

\* str.lower()
Lower(s) == [i \in DOMAIN s |-> LowerChar(s[i])]

\* re.match(r'^[a-zA-Z0-9_-]+$', s)
MatchesNameRegex(s) == Len(s) >= 1 /\ \A i \in DOMAIN s : s[i] \in NameChars

\* f"{n:04d}": at least four digits, zero padded
RECURSIVE Digits(_)
Digits(n) == IF n < 10 THEN <<DigitChar[n + 1]>>
             ELSE Digits(n \div 10) \o <<DigitChar[(n % 10) + 1]>>

RECURSIVE ZeroPad(_, _)
ZeroPad(s, w) == IF Len(s) >= w THEN s ELSE ZeroPad(<<"0">> \o s, w)

AutoPrefix == <<"x","s","u","k","a","x">>

\* f"xsukax{counter:04d}"
AutoName(n) == AutoPrefix \o ZeroPad(Digits(n), 4)

(***************************************************************************)
(* The finite universe the inputs are drawn from                           *)
(***************************************************************************)
Conns == {"c1", "c2", "c3"}                  \* websocket objects
Tasks == Conns \cup {"hb"}                   \* handle_client tasks and the heartbeat task

\* websocket.remote_address[0]: c1 and c2 connect from the same address
IpOf(c) == IF c = "c3" THEN "ip2" ELSE "ip1"
Ips == {IpOf(c) : c \in Conns}

Main   == <<"m","a","i","n">>
Lounge == <<"l","o","u","n","g","e">>
Rooms  == {Main, Lounge}

NAl    == <<"a","l">>                        \* "al"
NAlUp  == <<"A","L">>                        \* "AL"
NBo    == <<"b","o">>                        \* "bo"
NAutoUp == <<"X","S","U","K","A","X","0","0","0","1">>   \* "XSUKAX0001"
NShort == <<"a">>                            \* too short
NBad   == <<"a"," ","l">>                    \* "a l": not in the grammar

Secrets == {"s1", "s2"}                      \* values generate_admin_password can draw

None == "none"
All  == "*"                                  \* fan-out to every client (broadcast_message)

(***************************************************************************)
(* Dictionaries: Python dict / defaultdict as partial functions            *)
(***************************************************************************)
Get(f, k, d) == IF k \in DOMAIN f THEN f[k] ELSE d
Put(f, k, v) == [x \in (DOMAIN f) \cup {k} |-> IF x = k THEN v ELSE f[x]]
Del(f, k)    == [x \in (DOMAIN f) \ {k} |-> f[x]]
EmptyDict    == [x \in {} |-> 0]


(***************************************************************************)
(* State                                                                   *)
(***************************************************************************)
VARIABLES
  clients,             \* self.clients: insertion-ordered dict, as a sequence of
                       \*   [ws, username, ip, is_admin] (ws is the key)
  user_counter,        \* self.user_counter
  banned_ips,          \* self.banned_ips
  admin_password,      \* self.admin_password
  public_keys,         \* self.public_keys: username -> key
  usernames,           \* self.usernames
  user_message_times,  \* self.user_message_times: defaultdict username -> deque of times
  user_rooms,          \* self.user_rooms: defaultdict username -> set of rooms
  room_users,          \* self.room_users: room -> set of usernames (absent = empty)
  db_rooms,            \* table rooms: name -> is_active
  db_user_rooms,       \* table user_rooms: set of <<username, room_name>>
  banned_file,         \* banned.txt: the set of addresses written last
  db_up,               \* whether chat_rooms.db and banned.txt can be read and written
  now,                 \* datetime.now(), in seconds
  conn,                \* transport of each websocket: "open" | "closed"
  hstate,              \* handle_client of each connection: "loop" | "done"
  reg,                 \* handle_client's local user_data is set
  stack,               \* per task: the coroutine call stack, innermost first
  cur,                 \* per task: the frame being processed (observation)
  flog,                \* per task: frames sent while processing `cur` (observation)
  accepted,            \* per connection: times at which check_flood_protection
                       \*   accepted a frame of a non-admin session (observation)
  nframes,             \* frames received so far, over all connections
  inbox                \* per connection: the chat messages it has been sent, in the
                       \*   order of the sends that succeeded (observation)

mem  == <<clients, user_counter, banned_ips, admin_password, public_keys, usernames,
          user_message_times, user_rooms, room_users>>
disk == <<db_rooms, db_user_rooms, banned_file>>
envv == <<db_up, now, conn>>
ctl  == <<hstate, reg, stack>>
obs  == <<cur, flog, accepted, nframes, inbox>>
vars == <<mem, disk, envv, ctl, obs>>

(***************************************************************************)
(* self.clients                                                            *)
(***************************************************************************)
HasKey(cl, c)  == \E i \in DOMAIN cl : cl[i].ws = c                \* c in self.clients
DataOf(cl, c)  == cl[CHOOSE i \in DOMAIN cl : cl[i].ws = c]        \* self.clients[c]
KeysOf(cl)     == [i \in DOMAIN cl |-> cl[i].ws]                   \* list(self.clients.keys())
WithoutKey(cl, c) == SelectSeq(cl, LAMBDA r : r.ws # c)            \* del self.clients[c]
\* self.clients[c] = d: a new key goes last, an old key keeps its place
SetClient(cl, c, d) ==
  IF HasKey(cl, c) THEN [i \in DOMAIN cl |-> IF cl[i].ws = c THEN d ELSE cl[i]]
  ELSE Append(cl, d)

InClients(c)  == HasKey(clients, c)
Data(c)       == DataOf(clients, c)
ClientKeys    == {clients[i].ws : i \in DOMAIN clients}

\* the lookup comparing case-folded names
FindByNameFolded(cl, name) ==
  IF \E i \in DOMAIN cl : Lower(cl[i].username) = Lower(name)
  THEN cl[CHOOSE i \in DOMAIN cl : Lower(cl[i].username) = Lower(name)].ws
  ELSE None

\* first (ws, data) of self.clients.items() with data['username'] == name, or None
FindByName(cl, name) ==
  IF \E i \in DOMAIN cl : cl[i].username = name
  THEN cl[CHOOSE i \in DOMAIN cl :
            /\ cl[i].username = name
            /\ \A j \in DOMAIN cl : cl[j].username = name => i <= j].ws
  ELSE None

(***************************************************************************)
(* Identity registry                                                       *)
(***************************************************************************)
MinNameLen == 2
MaxNameLen == 20

\* validate_username with the availability test made on the names as they are
validate_username_exact(username, taken) ==
  IF username = <<>> THEN "Username cannot be empty"
  ELSE IF ~MatchesNameRegex(username) THEN "bad characters"
  ELSE IF Len(username) < MinNameLen \/ Len(username) > MaxNameLen THEN "bad length"
  ELSE IF username \in taken THEN "Username is already taken"
  ELSE "Valid"

\* validate_username(username), with taken = self.usernames
validate_username(username, taken) ==
  IF username = <<>> THEN "Username cannot be empty"
  ELSE IF ~MatchesNameRegex(username) THEN "bad characters"
  ELSE IF Len(username) < MinNameLen \/ Len(username) > MaxNameLen THEN "bad length"
  ELSE IF Lower(username) \in {Lower(u) : u \in taken} THEN "Username is already taken"
  ELSE "Valid"

\* generate_auto_username: the value of self.user_counter when the loop returns;
\* the name returned is AutoName of it.  The test is `username not in
\* self.usernames`: exact, not case-folded.
RECURSIVE generate_auto_username(_, _)
generate_auto_username(counter, taken) ==
  IF AutoName(counter) \notin taken THEN counter
  ELSE generate_auto_username(counter + 1, taken)

\* validate_room_name: [valid, room_name with a leading '#' removed]
validate_room_name(arg) ==
  LET name == IF Len(arg) >= 1 /\ arg[1] = "#" THEN Tail(arg) ELSE arg IN
  IF arg = <<>> THEN [valid |-> FALSE, name |-> arg]
  ELSE IF ~MatchesNameRegex(name) THEN [valid |-> FALSE, name |-> name]
  ELSE IF Len(name) < MinNameLen \/ Len(name) > MaxNameLen THEN [valid |-> FALSE, name |-> name]
  ELSE [valid |-> TRUE, name |-> name]

(***************************************************************************)
(* Rate limiter                                                            *)
(***************************************************************************)
FloodWindow == 60      \* timedelta(minutes=1), seconds
FloodLimit  == 30

RECURSIVE DropOld(_, _)
\* while user_times and now - user_times[0] > timedelta(minutes=1): popleft()
DropOld(times, t) ==
  IF times # <<>> /\ t - Head(times) > FloodWindow THEN DropOld(Tail(times), t) ELSE times

\* the limiter applied to admins as to everybody else
check_flood_protection_all(umt, username, is_admin, t) ==
  LET kept == DropOld(Get(umt, username, <<>>), t) IN
  IF Len(kept) >= FloodLimit
  THEN [flood |-> TRUE,  times |-> Put(umt, username, kept)]
  ELSE [flood |-> FALSE, times |-> Put(umt, username, Append(kept, t))]

\* the limiter recording the frames it rejects as well
check_flood_protection_counting(umt, username, is_admin, t) ==
  IF is_admin THEN [flood |-> FALSE, times |-> umt]
  ELSE LET kept == DropOld(Get(umt, username, <<>>), t) IN
       [flood |-> Len(kept) >= FloodLimit, times |-> Put(umt, username, Append(kept, t))]

\* check_flood_protection: [flood, times] where times is the new value of
\* self.user_message_times (the defaultdict entry is created by the lookup)
check_flood_protection(umt, username, is_admin, t) ==
  IF is_admin THEN [flood |-> FALSE, times |-> umt]
  ELSE LET kept == DropOld(Get(umt, username, <<>>), t) IN
       IF Len(kept) >= FloodLimit
       THEN [flood |-> TRUE,  times |-> Put(umt, username, kept)]
       ELSE [flood |-> FALSE, times |-> Put(umt, username, Append(kept, t))]

(***************************************************************************)
(* Room catalog: the sqlite tables and the two in-memory indexes.          *)
(* Each operator returns the new values of what the method touches.        *)
(***************************************************************************)
IsActive(rooms, r) == r \in DOMAIN rooms /\ rooms[r]

\* join_room going on in memory when the store raises
join_room_in_memory(up, rooms, dur, ur, ru, username, r) ==
  IF up /\ ~IsActive(rooms, r) THEN [ok |-> FALSE, dur |-> dur, ur |-> ur, ru |-> ru]
  ELSE [ok  |-> TRUE,
        dur |-> IF up THEN dur \cup {<<username, r>>} ELSE dur,
        ur  |-> Put(ur, username, Get(ur, username, {}) \cup {r}),
        ru  |-> [ru EXCEPT ![r] = @ \cup {username}]]

\* join_room(username, room_name)
join_room(up, rooms, dur, ur, ru, username, r) ==
  IF ~up THEN [ok |-> FALSE, dur |-> dur, ur |-> ur, ru |-> ru]             \* except Exception
  ELSE IF ~IsActive(rooms, r) THEN [ok |-> FALSE, dur |-> dur, ur |-> ur, ru |-> ru]
  ELSE [ok  |-> TRUE,
        dur |-> dur \cup {<<username, r>>},                                 \* INSERT OR IGNORE
        ur  |-> Put(ur, username, Get(ur, username, {}) \cup {r}),
        ru  |-> [ru EXCEPT ![r] = @ \cup {username}]]

\* leave_room(username, room_name)
leave_room(up, dur, ur, ru, username, r) ==
  IF r = Main THEN [ok |-> FALSE, dur |-> dur, ur |-> ur, ru |-> ru]
  ELSE IF ~up THEN [ok |-> FALSE, dur |-> dur, ur |-> ur, ru |-> ru]
  ELSE [ok  |-> TRUE,
        dur |-> dur \ {<<username, r>>},
        ur  |-> Put(ur, username, Get(ur, username, {}) \ {r}),
        ru  |-> [ru EXCEPT ![r] = @ \ {username}]]

\* create_room taking a soft-deleted name for a free one
create_room_revive(up, rooms, r) ==
  IF ~up THEN [ok |-> FALSE, rooms |-> rooms]
  ELSE IF IsActive(rooms, r) THEN [ok |-> FALSE, rooms |-> rooms]
  ELSE [ok |-> TRUE, rooms |-> Put(rooms, r, TRUE)]

\* create_room(room_name, created_by): rooms.name is UNIQUE
create_room(up, rooms, r) ==
  IF ~up THEN [ok |-> FALSE, rooms |-> rooms]
  ELSE IF r \in DOMAIN rooms THEN [ok |-> FALSE, rooms |-> rooms]           \* IntegrityError
  ELSE [ok |-> TRUE, rooms |-> Put(rooms, r, TRUE)]

\* delete_room without its first test: main is deleted like any room
delete_room_any(up, rooms, dur, ur, ru, r) ==
  IF ~up \/ ~IsActive(rooms, r)
  THEN [ok |-> FALSE, rooms |-> rooms, dur |-> dur, ur |-> ur, ru |-> ru]
  ELSE [ok    |-> TRUE,
        rooms |-> [rooms EXCEPT ![r] = FALSE],
        dur   |-> {p \in dur : p[2] # r},
        ur    |-> [u \in (DOMAIN ur) \cup ru[r] |->
                     IF u \in ru[r] THEN Get(ur, u, {}) \ {r} ELSE ur[u]],
        ru    |-> [ru EXCEPT ![r] = {}]]

\* delete_room(room_name, admin_username)
delete_room(up, rooms, dur, ur, ru, r) ==
  IF r = Main THEN [ok |-> FALSE, rooms |-> rooms, dur |-> dur, ur |-> ur, ru |-> ru]
  ELSE IF ~up THEN [ok |-> FALSE, rooms |-> rooms, dur |-> dur, ur |-> ur, ru |-> ru]
  ELSE IF ~IsActive(rooms, r)
       THEN [ok |-> FALSE, rooms |-> rooms, dur |-> dur, ur |-> ur, ru |-> ru]
  ELSE [ok    |-> TRUE,
        rooms |-> [rooms EXCEPT ![r] = FALSE],
        dur   |-> {p \in dur : p[2] # r},
        \* self.user_rooms[username].discard(room_name) for each member: the lookup
        \* creates the entry of a member that has none
        ur    |-> [u \in (DOMAIN ur) \cup ru[r] |->
                     IF u \in ru[r] THEN Get(ur, u, {}) \ {r} ELSE ur[u]],
        ru    |-> [ru EXCEPT ![r] = {}]]

\* load_user_rooms_from_db finding no row
load_user_rooms_none(up, rooms, dur, ur, ru, username) ==
  IF ~up THEN [rooms |-> {}, ur |-> ur, ru |-> ru]
  ELSE [rooms |-> {}, ur |-> Put(ur, username, {}), ru |-> ru]

\* load_user_rooms_from_db(username): the rooms returned and the two indexes
load_user_rooms_from_db(up, rooms, dur, ur, ru, username) ==
  IF ~up THEN [rooms |-> {}, ur |-> ur, ru |-> ru]
  ELSE LET found == {r \in Rooms : <<username, r>> \in dur /\ IsActive(rooms, r)} IN
       [rooms |-> found,
        ur    |-> Put(ur, username, found),
        ru    |-> [r \in Rooms |-> IF r \in found THEN ru[r] \cup {username} ELSE ru[r]]]


(***************************************************************************)
(* Coroutine frames.  A handler is a frame "seq": the awaits that remain   *)
(* after its synchronous part, in order.  broadcast_to_room and            *)
(* broadcast_message are frames "bcast"; unregister_client is "unreg".     *)
(***************************************************************************)
OpSend(to, ty) ==
  [op |-> "send", ty |-> ty, to |-> to, room |-> None, excl |-> None, user |-> None,
   onok |-> "next", onfail |-> "raise"]
\* a send inside try/except: the failure is caught and the coroutine goes on
OpSendCaught(to, ty, onok) ==
  [op |-> "send", ty |-> ty, to |-> to, room |-> None, excl |-> None, user |-> None,
   onok |-> onok, onfail |-> "next"]
OpBcast(room, ty, excl) ==
  [op |-> "bcast", ty |-> ty, to |-> None, room |-> room, excl |-> excl, user |-> None,
   onok |-> "next", onfail |-> "raise"]
\* for room_name in self.get_user_rooms(user): await self.broadcast_room_users_list(room_name)
OpRosters(user) ==
  [op |-> "rosters", ty |-> "room_users_list", to |-> None, room |-> None, excl |-> None,
   user |-> user, onok |-> "next", onfail |-> "raise"]
\* for room_name in self.user_rooms[<name>]: await self.broadcast_to_room(room_name, ty, excl)
\* (and, with roster set, await self.broadcast_room_users_list(room_name)).  <name> is
\* `user`, or with ws given the username ws's user_data holds when the loop starts.
\* n: len of the set when the loop starts (-1 before it does); room: the rooms still
\* to visit.
OpEachRoom(user, ws, ty, excl, roster) ==
  [op |-> "eachroom", ty |-> ty, to |-> ws, room |-> <<>>, excl |-> excl,
   user |-> user, onok |-> IF roster THEN "roster" ELSE "next", onfail |-> "raise", n |-> -1]
\* self.save_banned_users()
OpSave ==
  [op |-> "save", ty |-> None, to |-> None, room |-> None, excl |-> None, user |-> None,
   onok |-> "next", onfail |-> "raise"]
OpClose(to) ==
  [op |-> "close", ty |-> None, to |-> to, room |-> None, excl |-> None, user |-> None,
   onok |-> "next", onfail |-> "raise"]
OpUnreg(ws) ==
  [op |-> "unreg", ty |-> None, to |-> ws, room |-> None, excl |-> None, user |-> None,
   onok |-> "next", onfail |-> "raise"]

SeqFrame(ops, ret) == [fn |-> "seq", ops |-> ops, ret |-> ret]
BcastFrame(room, ty, excl, cl) ==
  [fn |-> "bcast", room |-> room, ty |-> ty, excl |-> excl, todo |-> KeysOf(cl), disc |-> <<>>]
UnregFrame(ws, username, rooms) ==
  [fn |-> "unreg", ws |-> ws, username |-> username, rooms |-> rooms, room |-> None,
   pc |-> "loop"]
ExcFrame == [fn |-> "exc"]

\* the sequences that list the set S once each: the orders list(S) can have
Orders(S) == {q \in [1..Cardinality(S) -> S] : \A i, j \in 1..Cardinality(S) : q[i] = q[j] => i = j}

(***************************************************************************)
(* Observation: the frame a task is processing and what it has sent        *)
(***************************************************************************)
\* kind: the frame; arg, room: its payload; admin, name: the sender's is_admin and
\* username when it arrived; res: what the synchronous part decided; members: the
\* sessions the frame was addressed to at that moment; seq: for a chat frame, its
\* place in the order in which the frames arrived
NoFrame == [kind |-> None, arg |-> None, room |-> None, admin |-> FALSE, res |-> None,
            name |-> None, members |-> {}, seq |-> 0]
Frame(kind, arg, room, admin, res, name, members) ==
  [kind |-> kind, arg |-> arg, room |-> room, admin |-> admin, res |-> res,
   name |-> name, members |-> members, seq |-> IF kind = "chat" THEN nframes + 1 ELSE 0]
\* via: "direct" for a handler's own send, "fanout" for a broadcast's
Sent(ty, to, ok, via) == [ty |-> ty, to |-> to, ok |-> ok, via |-> via]

\* fan-out frames that are recorded in flog (rosters and notices are not)
FanoutLogged == {"message", "room_deleted", "ping"}

\* a chat message as its receiver sees it: the sender's connection, the room
\* tag, and the frame it was made from
Msg(from, room, seq) == [from |-> from, room |-> room, seq |-> seq]

(***************************************************************************)
(* The machine a task runs on: the shared state its awaits can change,     *)
(* its own stack and log, and y: it has reached an await and yields.       *)
(***************************************************************************)
Mach(t) ==
  [cl |-> clients, un |-> usernames, pk |-> public_keys, umt |-> user_message_times,
   ur |-> user_rooms, ru |-> room_users, bans |-> banned_ips, bf |-> banned_file,
   cn |-> conn, stk |-> stack[t], log |-> flog[t], y |-> FALSE,
   in |-> inbox, me |-> t, seq |-> cur[t].seq, up |-> db_up]

Apply(t, M) ==
  /\ clients' = M.cl
  /\ usernames' = M.un
  /\ public_keys' = M.pk
  /\ user_message_times' = M.umt
  /\ user_rooms' = M.ur
  /\ room_users' = M.ru
  /\ banned_ips' = M.bans
  /\ banned_file' = M.bf
  /\ conn' = M.cn
  /\ stack' = [stack EXCEPT ![t] = M.stk]
  /\ flog' = [flog EXCEPT ![t] = M.log]
  /\ inbox' = M.in

\* what Apply leaves to the action
rest_mem  == <<user_counter, admin_password>>
rest_disk == <<db_rooms, db_user_rooms>>

MSetTop(M, f)  == [M EXCEPT !.stk = <<f>> \o Tail(@)]
MCall(M, f, g) == [M EXCEPT !.stk = <<g, f>> \o Tail(@)]     \* the top becomes f and calls g
MPop(M)        == [M EXCEPT !.stk = Tail(@)]
MRaise(M)      == [M EXCEPT !.stk = <<ExcFrame>>]            \* unwinds to the task's base

\* await self.unregister_client(ws), called by frame `caller`
\*   user_rooms = list(self.user_rooms[username]) creates the entry
unregister_client(M, caller, ws) ==
  IF HasKey(M.cl, ws)
  THEN LET u == DataOf(M.cl, ws).username IN
       [MCall(M, caller, UnregFrame(ws, u, Get(M.ur, u, {})))
          EXCEPT !.ur = Put(M.ur, u, Get(M.ur, u, {}))]
  ELSE MSetTop(M, caller)

(***************************************************************************)
(* The awaits of a handler                                                 *)
(***************************************************************************)
SeqMicro(M) ==
  LET f == Head(M.stk) IN
  IF f.ops = <<>> THEN {[M EXCEPT !.y = TRUE]}     \* the handler returns
  ELSE
  LET o  == Head(f.ops)
      f1 == [f EXCEPT !.ops = Tail(@)] IN
  CASE o.op = "send" ->
         \* await websocket.send(...)
         LET ok == M.cn[o.to] = "open"
             M1 == [M EXCEPT !.log = Append(@, Sent(o.ty, o.to, ok, "direct")), !.y = TRUE] IN
         IF ok THEN {MSetTop(M1, IF o.onok = "return" THEN [f EXCEPT !.ops = <<>>] ELSE f1)}
         ELSE IF o.onfail = "raise" THEN {MRaise(M1)}
         ELSE {MSetTop(M1, f1)}
    [] o.op = "bcast" ->
         \* await self.broadcast_to_room(...) / broadcast_message(...): the call
         \* snapshots list(self.clients.items())
         {MCall(M, f1, BcastFrame(o.room, o.ty, o.excl, M.cl))}
    [] o.op = "rosters" ->
         \* for room_name in self.get_user_rooms(username): a copy of the set, made now
         LET rs == Get(M.ur, o.user, {}) IN
         {[MSetTop(M, [f EXCEPT !.ops =
               [i \in 1..Len(q) |-> OpBcast(q[i], "room_users_list", None)] \o Tail(@)])
             EXCEPT !.ur = Put(M.ur, o.user, rs)] : q \in Orders(rs)}
    [] o.op = "eachroom" ->
         \* for room_name in self.user_rooms[name]: iterates the live set; a later
         \* iteration raises RuntimeError (set changed size during iteration) when
         \* the set under that key has another size
         IF o.n < 0
         THEN LET name == IF o.to # None /\ HasKey(M.cl, o.to)
                          THEN DataOf(M.cl, o.to).username ELSE o.user
                  rs == Get(M.ur, name, {}) IN
              {[MSetTop(M, [f EXCEPT !.ops =
                    <<[o EXCEPT !.room = q, !.user = name, !.n = Cardinality(rs)]>> \o Tail(@)])
                  EXCEPT !.ur = Put(M.ur, name, rs)] : q \in Orders(rs)}
         ELSE IF o.room = <<>> THEN {MSetTop(M, f1)}
         ELSE IF o.user \in DOMAIN M.ur /\ Cardinality(M.ur[o.user]) # o.n THEN {MRaise(M)}
         ELSE {MSetTop(M, [f EXCEPT !.ops =
                  <<OpBcast(Head(o.room), o.ty, o.excl)>>
                  \o (IF o.onok = "roster"
                      THEN <<OpBcast(Head(o.room), "room_users_list", None)>> ELSE <<>>)
                  \o <<[o EXCEPT !.room = Tail(@)]>> \o Tail(@)])}
    [] o.op = "close" ->
         \* await ws.close()
         {[MSetTop(M, f1) EXCEPT !.cn = [M.cn EXCEPT ![o.to] = "closed"], !.y = TRUE]}
    [] o.op = "save" ->
         \* self.save_banned_users(): rewrites banned.txt from self.banned_ips;
         \* a failure of open or write is printed
         {[MSetTop(M, f1) EXCEPT !.bf = IF M.up THEN M.bans ELSE M.bf]}
    [] o.op = "unreg" ->
         {unregister_client(M, f1, o.to)}

(***************************************************************************)
(* broadcast_to_room / broadcast_message / ping_all_clients                *)
(***************************************************************************)
\* websocket != exclude and user_data['username'] in self.room_users[room_name].
\* A websocket of the snapshot that has left self.clients since is closed: a
\* send to it can only raise and the cleanup skips it, so it is passed over.
IsTarget(M, f, w) ==
  /\ w # f.excl
  /\ HasKey(M.cl, w)
  /\ (f.room = All \/ DataOf(M.cl, w).username \in M.ru[f.room])

RECURSIVE SkipNonTargets(_, _, _)
SkipNonTargets(M, f, todo) ==
  IF todo = <<>> \/ IsTarget(M, f, Head(todo)) THEN todo ELSE SkipNonTargets(M, f, Tail(todo))

RECURSIVE SkipGone(_, _)
\* for ws in disconnected: if ws in self.clients
SkipGone(cl, disc) ==
  IF disc = <<>> \/ HasKey(cl, Head(disc)) THEN disc ELSE SkipGone(cl, Tail(disc))

BcastMicro(M) ==
  LET f    == Head(M.stk)
      todo == SkipNonTargets(M, f, f.todo)
      disc == SkipGone(M.cl, f.disc) IN
  IF todo # <<>>
  THEN \* await websocket.send(json.dumps(message_with_room))
       LET w  == Head(todo)
           ok == M.cn[w] = "open" IN
       {[MSetTop(M, [f EXCEPT !.todo = Tail(todo), !.disc = IF ok THEN @ ELSE Append(@, w)])
           EXCEPT !.log = IF f.ty \in FanoutLogged
                          THEN Append(@, Sent(f.ty, w, ok, "fanout")) ELSE @,
                  !.in = IF f.ty = "message" /\ ok
                         THEN [@ EXCEPT ![w] = Append(@, Msg(M.me, f.room, M.seq))] ELSE @,
                  !.y = TRUE]}
  ELSE IF disc = <<>> THEN {MPop(M)}
  ELSE \* await self.unregister_client(ws)
       {unregister_client(M, [f EXCEPT !.todo = <<>>, !.disc = Tail(disc)], Head(disc))}

(***************************************************************************)
(* unregister_client, after its first lines                                *)
(***************************************************************************)
UnregMicro(M) ==
  LET f == Head(M.stk) IN
  IF f.pc = "roster"
  THEN \* await self.broadcast_room_users_list(room_name)
       {MCall(M, [f EXCEPT !.pc = "loop"], BcastFrame(f.room, "room_users_list", None, M.cl))}
  ELSE IF f.pc = "end" THEN {MPop(M)}
  ELSE IF f.rooms # {}
  THEN \* the next room_name of user_rooms: discard, then broadcast user_left
       {[MCall(M, [f EXCEPT !.rooms = @ \ {r}, !.room = r, !.pc = "roster"],
               BcastFrame(r, "user_left", None, M.cl))
           EXCEPT !.ru = [M.ru EXCEPT ![r] = @ \ {f.username}]] : r \in f.rooms}
  ELSE \* the clean-up, with the username read when unregister began
       LET cl == WithoutKey(M.cl, f.ws)
           M1 == [M EXCEPT !.un = @ \ {f.username},
                           !.pk = Del(@, f.username),
                           !.umt = Del(@, f.username),
                           !.ur = Del(@, f.username),
                           !.cl = cl] IN
       IF HasKey(M.cl, f.ws)
       THEN {MCall(M1, [f EXCEPT !.pc = "end"], BcastFrame(All, "users_list", None, cl))}
       ELSE {MRaise(M1)}                          \* del self.clients[websocket]: KeyError

(***************************************************************************)
(* A task runs from where it is to its next await                          *)
(***************************************************************************)
Micro(M) ==
  LET fn == Head(M.stk).fn IN
  CASE fn = "seq"   -> SeqMicro(M)
    [] fn = "bcast" -> BcastMicro(M)
    [] fn = "unreg" -> UnregMicro(M)
    [] fn = "exc"   -> {[M EXCEPT !.y = TRUE]}

RECURSIVE RunAll(_)
RunAll(M) == IF M.y THEN {M} ELSE UNION {RunAll(x) : x \in Micro(M)}

\* the task has returned to handle_client (or raised into it)
AtBase(stk) ==
  /\ Len(stk) = 1
  /\ Head(stk).fn = "exc" \/ (Head(stk).fn = "seq" /\ Head(stk).ops = <<>>)

\* the loop takes the next frame without awaiting the handler of the last one
IdleAny(c) == hstate[c] = "loop"

\* handle_client is at `async for message in websocket`: the handler of the
\* frame before has been awaited to its end
Idle(c) == stack[c] = <<>> /\ hstate[c] = "loop"

\* a suspended task is resumed by the event loop
Resume(t) ==
  /\ stack[t] # <<>> /\ ~AtBase(stack[t])
  /\ \E M \in RunAll(Mach(t)) : Apply(t, M)
  /\ UNCHANGED <<rest_mem, rest_disk, db_up, now, hstate, reg, cur, accepted, nframes>>

\* a handler starts on frame `frame`: M0 is the state its synchronous part
\* leaves, ops are its awaits; it runs to the first of them
Go(c, M0, frame, ops, ret) ==
  /\ \E M \in RunAll([M0 EXCEPT !.stk = <<SeqFrame(ops, ret)>>, !.log = <<>>,
                                  !.seq = frame.seq]) : Apply(c, M)
  /\ cur' = [cur EXCEPT ![c] = frame]
  /\ nframes' = IF frame.kind = "closed" THEN nframes ELSE nframes + 1

(***************************************************************************)
(* handle_client: the end of a frame's handling, and the end of the        *)
(* connection                                                              *)
(***************************************************************************)
\* the handler has returned, or an exception reached handle_client's except
Finish(t) ==
  /\ stack[t] # <<>> /\ AtBase(stack[t])
  /\ LET f == Head(stack[t])
         ret == IF hstate[t] = "finally" THEN "exit"
                ELSE IF f.fn = "exc" THEN (IF t \in Conns THEN "loop" ELSE "exit")
                ELSE f.ret IN
     /\ hstate' = [hstate EXCEPT ![t] = IF ret = "exit" THEN "done" ELSE @]
     /\ reg' = IF ret = "registered" THEN [reg EXCEPT ![t] = TRUE] ELSE reg
     /\ conn' = IF ret = "exit" /\ t \in Conns THEN [conn EXCEPT ![t] = "closed"] ELSE conn
  /\ stack' = [stack EXCEPT ![t] = <<>>]
  /\ cur' = [cur EXCEPT ![t] = NoFrame]
  /\ flog' = [flog EXCEPT ![t] = <<>>]
  /\ UNCHANGED <<mem, disk, db_up, now, accepted, nframes, inbox>>

\* the peer goes away, or the transport fails
PeerClose(c) ==
  /\ conn[c] = "open" /\ hstate[c] # "done"
  /\ conn' = [conn EXCEPT ![c] = "closed"]
  /\ UNCHANGED <<mem, disk, db_up, now, hstate, reg, stack, obs>>

\* `async for message in websocket` raises ConnectionClosed; the finally block
RecvClosed(c) ==
  /\ Idle(c) /\ conn[c] = "closed"
  /\ IF reg[c] /\ InClients(c)
     THEN /\ hstate' = [hstate EXCEPT ![c] = "finally"]
          /\ Go(c, Mach(c), Frame("closed", None, None, FALSE, "ok", None, {}),
                <<OpUnreg(c)>>, "exit")
     ELSE /\ hstate' = [hstate EXCEPT ![c] = "done"]
          /\ UNCHANGED <<clients, usernames, public_keys, user_message_times, user_rooms,
                         room_users, banned_ips, banned_file, conn, stack, cur, flog, nframes,
                         inbox>>
  /\ UNCHANGED <<rest_mem, rest_disk, db_up, now, reg, accepted>>

(***************************************************************************)
(* The state after ChatServer() has been constructed, over the files it    *)
(* finds: banned.txt (bans), and chat_rooms.db (rooms, rows).              *)
(***************************************************************************)
InitWith(bans, rooms, rows) ==
  /\ clients = <<>>
  /\ user_counter = 1
  /\ banned_ips = bans                       \* load_banned_users
  /\ banned_file = bans
  /\ admin_password = "s1"                   \* generate_admin_password
  /\ public_keys = EmptyDict
  /\ usernames = {}
  /\ user_message_times = EmptyDict
  /\ user_rooms = EmptyDict
  /\ room_users = [r \in Rooms |-> {}]
  /\ db_rooms = rooms                        \* init_database: INSERT OR IGNORE main
  /\ db_user_rooms = rows
  /\ db_up = TRUE
  /\ now = 0
  /\ conn = [c \in Conns |-> "open"]
  /\ hstate = [t \in Tasks |-> "loop"]
  /\ reg = [c \in Conns |-> FALSE]
  /\ stack = [t \in Tasks |-> <<>>]
  /\ cur = [t \in Tasks |-> NoFrame]
  /\ flog = [t \in Tasks |-> <<>>]
  /\ accepted = [c \in Conns |-> <<>>]
  /\ nframes = 0
  /\ inbox = [c \in Conns |-> <<>>]

FreshRooms == [r \in {Main} |-> TRUE]

\* a fresh installation: no banned.txt, no chat_rooms.db
Init == InitWith({}, FreshRooms, {})

(***************************************************************************)
(* register_client                                                         *)
(***************************************************************************)
\* the ban test left out
is_banned_never(bans, c) == FALSE

\* is_banned(websocket)
is_banned(bans, c) == IpOf(c) \in bans

RegisterOps(c, username) ==
  << OpSend(c, "welcome"),
     OpBcast(Main, "user_joined", c),
     OpBcast(All, "users_list", None),        \* broadcast_users_list
     OpBcast(All, "rooms_list", None),        \* broadcast_rooms_list
     OpRosters(username) >>

\* a register frame on a connection whose handler has no user_data yet;
\* name = <<>> stands for a missing or blank username
Register(c, name) ==
  /\ Idle(c) /\ ~reg[c]
  /\ LET verdict == IF name = <<>> THEN "Valid" ELSE validate_username(name, usernames)
         counter == IF name = <<>> THEN generate_auto_username(user_counter, usernames)
                    ELSE user_counter
         username == IF name = <<>> THEN AutoName(counter) ELSE name
         loaded == load_user_rooms_from_db(db_up, db_rooms, db_user_rooms,
                                           user_rooms, room_users, username)
         joined == IF Main \in loaded.rooms
                   THEN [ok |-> TRUE, dur |-> db_user_rooms, ur |-> loaded.ur, ru |-> loaded.ru]
                   ELSE join_room(db_up, db_rooms, db_user_rooms, loaded.ur, loaded.ru,
                                  username, Main) IN
     IF is_banned(banned_ips, c)
     THEN /\ Go(c, Mach(c), Frame("register", name, None, FALSE, "banned", None, {}),
                <<OpSend(c, "error")>>, "exit")
          /\ UNCHANGED <<rest_mem, rest_disk>>
     ELSE IF verdict # "Valid"
     THEN /\ Go(c, Mach(c), Frame("register", name, None, FALSE, "invalid", None, {}),
                <<OpSend(c, "error")>>, "exit")
          /\ UNCHANGED <<rest_mem, rest_disk>>
     ELSE /\ user_counter' = IF name = <<>> THEN counter + 1 ELSE user_counter
          /\ db_user_rooms' = joined.dur
          /\ Go(c, [Mach(c) EXCEPT
                      !.un = @ \cup {username},
                      !.cl = SetClient(@, c, [ws |-> c, username |-> username,
                                              ip |-> IpOf(c), is_admin |-> FALSE]),
                      !.ur = joined.ur,
                      !.ru = joined.ru],
                Frame("register", name, None, FALSE, "ok", username, {}),
                RegisterOps(c, username), "registered")
          /\ UNCHANGED <<admin_password, db_rooms>>
  /\ UNCHANGED <<db_up, now, hstate, reg, accepted>>

\* any frame of a connection whose websocket is no longer in self.clients:
\* handle_message returns at once
Dropped(c) ==
  /\ Idle(c) /\ reg[c] /\ ~InClients(c)
  /\ Go(c, Mach(c), Frame("dropped", None, None, FALSE, "ok", None, {}), <<>>, "loop")
  /\ UNCHANGED <<rest_mem, rest_disk, db_up, now, hstate, reg, accepted>>

(***************************************************************************)
(* handle_message and the handlers it dispatches to.  Each action is one   *)
(* inbound frame of a registered connection: the synchronous part, then    *)
(* the handler runs to its first await.                                    *)
(***************************************************************************)
\* handle_client: user_data is set; handle_message: websocket in self.clients
Ready(c) == Idle(c) /\ reg[c] /\ InClients(c)

Handle(c, M0, frame, ops) ==
  /\ Go(c, M0, frame, ops, "loop")
  /\ UNCHANGED <<rest_mem, db_up, now, hstate, reg>>

\* the admin test left out
IsAdminAny(cl, c) == TRUE

\* user_data['is_admin']
IsAdmin(cl, c) == DataOf(cl, c).is_admin

\* the sessions whose username is in self.room_users[r]
Members(cl, ru, r) == {cl[i].ws : i \in {j \in DOMAIN cl : cl[j].username \in ru[r]}}
\* the sessions whose username is name
Named(cl, name) == {cl[i].ws : i \in {j \in DOMAIN cl : cl[j].username = name}}

\* the membership test left out
InRoomAny(mine, r) == TRUE

\* target_room in self.user_rooms[user_data['username']]
InRoom(mine, r) == r \in mine

\* a text frame for room r that reaches the membership test: kind is "chat"
\* for content that does not begin with '/', "slash" for content that does
Said(c, r, kind) ==
  /\ Ready(c)
  /\ LET d    == Data(c)
         u    == d.username
         mine == Get(user_rooms, u, {})
         M1   == [Mach(c) EXCEPT !.ur = Put(@, u, mine)]       \* the defaultdict lookup
         fl   == check_flood_protection(user_message_times, u, d.is_admin, now)
         fr(res) == Frame(kind, None, r, d.is_admin, res, u,
                          Members(clients, room_users, r)) IN
     IF ~InRoom(mine, r)
     THEN /\ Handle(c, M1, fr("notmember"), <<OpSend(c, "error")>>)
          /\ UNCHANGED accepted
     ELSE IF fl.flood
     THEN /\ Handle(c, [M1 EXCEPT !.umt = fl.times], fr("flood"), <<OpSend(c, "error")>>)
          /\ UNCHANGED accepted
     ELSE /\ Handle(c, [M1 EXCEPT !.umt = fl.times], fr("ok"), <<OpBcast(r, "message", None)>>)
          /\ accepted' = IF d.is_admin THEN accepted
                         ELSE [accepted EXCEPT ![c] = Append(@, now)]
  /\ UNCHANGED rest_disk

\* a text frame that is not a command: chat for room r
Chat(c, r) == Said(c, r, "chat")

\* content that begins with '/' followed by a word that is none of join, left,
\* createroom, deleteroom, changeuname, admin, userinfo, kick, ban, help: no
\* branch of the if/elif chain is taken and none has an else
Unrecognized(c, r) == Said(c, r, "slash")

\* a private frame with recipient_username = to (and some encrypted_content)
Private(c, to) ==
  /\ Ready(c)
  /\ LET d  == Data(c)
         u  == d.username
         fl == check_flood_protection(user_message_times, u, d.is_admin, now)
         w  == FindByName(clients, to)
         M1 == [Mach(c) EXCEPT !.umt = fl.times]
         fr(res) == Frame("private", to, None, d.is_admin, res, u, Named(clients, to)) IN
     IF fl.flood
     THEN /\ Handle(c, M1, fr("flood"), <<OpSend(c, "error")>>)
          /\ UNCHANGED accepted
     ELSE /\ IF w = None
             THEN Handle(c, M1, fr("nouser"), <<OpSend(c, "error")>>)
             ELSE \* send_private_message: try: send; return True
                  \*                       except: unregister_client(ws); return False
                  Handle(c, M1, fr("ok"),
                         <<OpSendCaught(w, "private_message", "return"), OpUnreg(w),
                           OpSend(c, "error")>>)
          /\ accepted' = IF d.is_admin THEN accepted
                         ELSE [accepted EXCEPT ![c] = Append(@, now)]
  /\ UNCHANGED rest_disk

JoinOps(c, r) ==
  <<OpSend(c, "room_joined"), OpBcast(r, "user_joined_room", c),
    OpBcast(r, "room_users_list", None)>>
LeaveOps(c, r) ==
  <<OpSend(c, "room_left"), OpBcast(r, "user_left_room", None),
    OpBcast(r, "room_users_list", None)>>

\* a join_room frame (cmd = FALSE: room_name is taken as it is) or /join arg
\* (cmd = TRUE: validate_room_name first)
JoinRoom(c, arg, cmd) ==
  /\ Ready(c)
  /\ LET d == Data(c)
         u == d.username
         v == IF cmd THEN validate_room_name(arg) ELSE [valid |-> TRUE, name |-> arg]
         j == join_room(db_up, db_rooms, db_user_rooms, user_rooms, room_users, u, v.name)
         fr(res) == Frame(IF cmd THEN "join" ELSE "join_room", arg, v.name, d.is_admin,
                          res, u, {}) IN
     IF ~v.valid
     THEN /\ Handle(c, Mach(c), fr("invalid"), <<OpSend(c, "error")>>)
          /\ UNCHANGED db_user_rooms
     ELSE IF ~j.ok
     THEN /\ Handle(c, Mach(c), fr("refused"), <<OpSend(c, "error")>>)
          /\ UNCHANGED db_user_rooms
     ELSE /\ Handle(c, [Mach(c) EXCEPT !.ur = j.ur, !.ru = j.ru], fr("ok"), JoinOps(c, v.name))
          /\ db_user_rooms' = j.dur
  /\ UNCHANGED <<db_rooms, accepted>>

\* a leave_room frame for room r
LeaveRoom(c, r) ==
  /\ Ready(c)
  /\ LET d == Data(c)
         u == d.username
         l == leave_room(db_up, db_user_rooms, user_rooms, room_users, u, r)
         fr(res) == Frame("leave_room", r, r, d.is_admin, res, u, {}) IN
     IF ~l.ok
     THEN /\ Handle(c, Mach(c), fr("refused"), <<OpSend(c, "error")>>)
          /\ UNCHANGED db_user_rooms
     ELSE /\ Handle(c, [Mach(c) EXCEPT !.ur = l.ur, !.ru = l.ru], fr("ok"), LeaveOps(c, r))
          /\ db_user_rooms' = l.dur
  /\ UNCHANGED <<db_rooms, accepted>>

\* /left: leaves the first room of list(self.user_rooms[username]) that is not main
Left(c) ==
  /\ Ready(c)
  /\ LET d == Data(c)
         u == d.username
         mine == Get(user_rooms, u, {})
         M1 == [Mach(c) EXCEPT !.ur = Put(@, u, mine)]         \* get_user_rooms
         fr(res, r) == Frame("left", None, r, d.is_admin, res, u, {}) IN
     IF Cardinality(mine) <= 1
     THEN /\ Handle(c, M1, fr("onlymain", None), <<OpSend(c, "error")>>)
          /\ UNCHANGED db_user_rooms
     ELSE \E r \in mine \ {Main} :
            LET l == leave_room(db_up, db_user_rooms, M1.ur, room_users, u, r) IN
            IF ~l.ok
            THEN /\ Handle(c, M1, fr("refused", r), <<OpSend(c, "error")>>)
                 /\ UNCHANGED db_user_rooms
            ELSE /\ Handle(c, [M1 EXCEPT !.ur = l.ur, !.ru = l.ru], fr("ok", r), LeaveOps(c, r))
                 /\ db_user_rooms' = l.dur
  /\ UNCHANGED <<db_rooms, accepted>>

\* /createroom arg
CreateRoom(c, arg) ==
  /\ Ready(c)
  /\ LET d == Data(c)
         v == validate_room_name(arg)
         cr == create_room(db_up, db_rooms, v.name)
         fr(res) == Frame("createroom", arg, v.name, d.is_admin, res, d.username, {}) IN
     IF ~IsAdmin(clients, c)
     THEN /\ Handle(c, Mach(c), fr("denied"), <<OpSend(c, "error")>>)
          /\ UNCHANGED db_rooms
     ELSE IF ~v.valid
     THEN /\ Handle(c, Mach(c), fr("invalid"), <<OpSend(c, "error")>>)
          /\ UNCHANGED db_rooms
     ELSE IF ~cr.ok
     THEN /\ Handle(c, Mach(c), fr("refused"), <<OpSend(c, "error")>>)
          /\ UNCHANGED db_rooms
     ELSE /\ Handle(c, Mach(c), fr("ok"),
                    <<OpSend(c, "room_created"), OpBcast(All, "rooms_list", None)>>)
          /\ db_rooms' = cr.rooms
  /\ UNCHANGED <<db_user_rooms, accepted>>

\* /deleteroom arg
DeleteRoom(c, arg) ==
  /\ Ready(c)
  /\ LET d == Data(c)
         v == validate_room_name(arg)
         dl == delete_room(db_up, db_rooms, db_user_rooms, user_rooms, room_users, v.name)
         fr(res) == Frame("deleteroom", arg, v.name, d.is_admin, res, d.username,
                          IF v.name \in Rooms THEN Members(clients, room_users, v.name)
                          ELSE {}) IN
     IF ~IsAdmin(clients, c)
     THEN /\ Handle(c, Mach(c), fr("denied"), <<OpSend(c, "error")>>)
          /\ UNCHANGED rest_disk
     ELSE IF ~v.valid
     THEN /\ Handle(c, Mach(c), fr("invalid"), <<OpSend(c, "error")>>)
          /\ UNCHANGED rest_disk
     ELSE IF v.name \notin Rooms \/ ~dl.ok
     THEN /\ Handle(c, Mach(c), fr("refused"), <<OpSend(c, "error")>>)
          /\ UNCHANGED rest_disk
     ELSE /\ Handle(c, [Mach(c) EXCEPT !.ur = dl.ur, !.ru = dl.ru], fr("ok"),
                    <<OpSend(c, "room_deleted"), OpBcast(v.name, "room_deleted", None),
                      OpBcast(All, "rooms_list", None)>>)
          /\ db_rooms' = dl.rooms
          /\ db_user_rooms' = dl.dur
  /\ UNCHANGED accepted

\* UPDATE user_rooms SET username = new WHERE username = old: the statement
\* fails on UNIQUE(username, room_name), or with the store down, and then
\* changes nothing (the except only prints)
RenameRows(up, dur, old, new) ==
  IF ~up \/ \E p \in dur : p[1] = old /\ <<new, p[2]>> \in dur THEN dur
  ELSE {IF p[1] = old THEN <<new, p[2]>> ELSE p : p \in dur}

\* if old in d: d[new] = d[old]; del d[old]
MoveKey(d, old, new) == IF old \in DOMAIN d THEN Del(Put(d, new, d[old]), old) ELSE d

\* /changeuname new (new = <<>>: no argument)
ChangeName(c, new) ==
  /\ Ready(c)
  /\ LET d   == Data(c)
         old == d.username
         verdict == validate_username(new, usernames)
         mine == Get(user_rooms, old, {})
         fr(res) == Frame("changeuname", new, None, d.is_admin, res, old, {}) IN
     IF new = <<>>
     THEN /\ Handle(c, Mach(c), fr("usage"), <<OpSend(c, "error")>>)
          /\ UNCHANGED db_user_rooms
     ELSE IF verdict # "Valid"
     THEN /\ Handle(c, Mach(c), fr("invalid"), <<OpSend(c, "error")>>)
          /\ UNCHANGED db_user_rooms
     ELSE /\ db_user_rooms' = RenameRows(db_up, db_user_rooms, old, new)
          /\ Handle(c, [Mach(c) EXCEPT
                          !.un = (@ \ {old}) \cup {new},
                          !.cl = SetClient(@, c, [d EXCEPT !.username = new]),
                          !.pk = MoveKey(@, old, new),
                          !.umt = MoveKey(@, old, new),
                          !.ur = MoveKey(@, old, new),
                          !.ru = IF old \in DOMAIN user_rooms
                                 THEN [r \in Rooms |->
                                         IF r \in mine /\ old \in @[r]
                                         THEN (@[r] \ {old}) \cup {new} ELSE @[r]]
                                 ELSE @],
                    fr("ok"),
                    <<OpSend(c, "username_changed"),
                      OpEachRoom(new, None, "user_renamed", c, TRUE),
                      OpBcast(All, "users_list", None)>>)
  /\ UNCHANGED <<db_rooms, accepted>>

\* any secret generate_admin_password has drawn or may draw is accepted
PasswordIsASecret(password, secret) == password \in Secrets

\* password == self.admin_password
PasswordMatches(password, secret) == password = secret

\* /admin password (password = "": no argument)
Admin(c, password) ==
  /\ Ready(c)
  /\ LET d == Data(c)
         fr(res) == Frame("admin", password, None, d.is_admin, res, d.username, {}) IN
     IF PasswordMatches(password, admin_password)
     THEN Handle(c, [Mach(c) EXCEPT !.cl = SetClient(@, c, [d EXCEPT !.is_admin = TRUE])],
                 fr("ok"),
                 <<OpSend(c, "admin_success"), OpBcast(All, "users_list", None),
                   OpRosters(d.username)>>)
     ELSE Handle(c, Mach(c), fr("denied"), <<OpSend(c, "error")>>)
  /\ UNCHANGED <<rest_disk, accepted>>

\* /userinfo name
UserInfo(c, name) ==
  /\ Ready(c)
  /\ LET d == Data(c)
         fr(res) == Frame("userinfo", name, None, d.is_admin, res, d.username,
                          Named(clients, name)) IN
     IF ~IsAdmin(clients, c)
     THEN Handle(c, Mach(c), fr("denied"), <<OpSend(c, "error")>>)
     ELSE IF FindByName(clients, name) = None
     THEN Handle(c, Mach(c), fr("nouser"), <<OpSend(c, "error")>>)
     ELSE Handle(c, Mach(c), fr("ok"), <<OpSend(c, "user_info")>>)
  /\ UNCHANGED <<rest_disk, accepted>>

\* /kick name
Kick(c, name) ==
  /\ Ready(c)
  /\ LET d == Data(c)
         w == FindByName(clients, name)
         fr(res) == Frame("kick", name, None, d.is_admin, res, d.username,
                          Named(clients, name)) IN
     IF ~IsAdmin(clients, c)
     THEN Handle(c, Mach(c), fr("denied"), <<OpSend(c, "error")>>)
     ELSE IF w = None
     THEN Handle(c, Mach(c), fr("nouser"), <<OpSend(c, "error")>>)
     ELSE Handle(c, Mach(c), fr("ok"),
                 <<OpSend(w, "kicked"), OpEachRoom(name, w, "user_kicked", w, FALSE),
                   OpClose(w)>>)
  /\ UNCHANGED <<rest_disk, accepted>>

\* /ban name
Ban(c, name) ==
  /\ Ready(c)
  /\ LET d == Data(c)
         w == FindByName(clients, name)
         fr(res) == Frame("ban", name, None, d.is_admin, res, d.username,
                          Named(clients, name)) IN
     IF ~IsAdmin(clients, c)
     THEN Handle(c, Mach(c), fr("denied"), <<OpSend(c, "error")>>)
     ELSE IF w = None
     THEN Handle(c, Mach(c), fr("nouser"), <<OpSend(c, "error")>>)
     ELSE \* self.banned_ips.add(data['ip']), then the awaits
          Handle(c, [Mach(c) EXCEPT !.bans = @ \cup {DataOf(clients, w).ip}],
                 fr("ok"),
                 <<OpSend(w, "banned"), OpClose(w), OpSave,
                   OpEachRoom(name, w, "user_banned", None, FALSE),
                   OpSend(c, "ban_success")>>)
  /\ UNCHANGED <<rest_disk, accepted>>

\* a frame that is not register on a connection without user_data
Unregistered(c) ==
  /\ Idle(c) /\ ~reg[c]
  /\ Handle(c, Mach(c), Frame("unregistered", None, None, FALSE, "denied", None, {}),
            <<OpSend(c, "error")>>)
  /\ UNCHANGED <<rest_disk, accepted>>

(***************************************************************************)
(* Background activities                                                   *)
(***************************************************************************)
\* start_heartbeat_checker: one ping_all_clients
Sweep ==
  /\ stack["hb"] = <<>> /\ hstate["hb"] = "loop"
  /\ clients # <<>>
  /\ Go("hb", Mach("hb"), Frame("sweep", None, None, FALSE, "ok", None, {}),
        <<OpBcast(All, "ping", None)>>, "loop")
  /\ UNCHANGED <<rest_mem, rest_disk, db_up, now, hstate, reg, accepted>>

\* a rotation that also takes the admin flag from every session
RotateRevoking ==
  /\ \E s \in Secrets \ {admin_password} : admin_password' = s
  /\ clients' = [i \in DOMAIN clients |-> [clients[i] EXCEPT !.is_admin = FALSE]]
  /\ UNCHANGED <<user_counter, banned_ips, public_keys, usernames,
                 user_message_times, user_rooms, room_users, disk, envv, ctl, obs>>

\* the rotation thread: generate_admin_password draws another secret
Rotate ==
  /\ \E s \in Secrets \ {admin_password} : admin_password' = s
  /\ UNCHANGED <<clients, user_counter, banned_ips, public_keys, usernames,
                 user_message_times, user_rooms, room_users, disk, envv, ctl, obs>>

\* the files become unavailable (disk full, locked, unreadable), or available
\* again: sqlite3.connect and execute, and open('banned.txt', 'w'), raise
Outage ==
  /\ db_up' = ~db_up
  /\ UNCHANGED <<mem, disk, now, conn, ctl, obs>>

\* one second passes
Tick ==
  /\ now' = now + 1
  /\ UNCHANGED <<mem, disk, db_up, conn, ctl, obs>>

(***************************************************************************)
(* Specification Spec: the identity registry.  Two connections register    *)
(* (with a name of their own or an allocated one), rename and disconnect.  *)
(***************************************************************************)
Two == {"c1", "c2"}
RegNames == {<<>>, NAutoUp}
NewNames == {NAl, NAutoUp}
MaxFrames == 3

Next ==
  \/ \E t \in Tasks : Resume(t) \/ Finish(t)
  \/ \E c \in Two : PeerClose(c) \/ RecvClosed(c)
  \/ \E c \in Two : \E n \in RegNames : nframes < MaxFrames /\ Register(c, n)
  \/ \E c \in Two : \E n \in NewNames : nframes < MaxFrames /\ ChangeName(c, n)

Spec == Init /\ [][Next]_vars

\* C1: in every reachable state no two sessions of the session table have
\* usernames that are equal after case-folding.
NoCaseFoldedDuplicate ==
  \A i, j \in DOMAIN clients :
    Lower(clients[i].username) = Lower(clients[j].username) => i = j

(***************************************************************************)
(* Specification SpecRoom: room-scoped chat.  chat_rooms.db of an earlier  *)
(* run holds the room lounge and the memberships of al and bo in it; c1    *)
(* registers as al, c2 as bo; they chat, leave lounge, and c2 may go away. *)
(***************************************************************************)
LoungeRooms == [r \in Rooms |-> TRUE]
LoungeRows  == {<<NAl, Lounge>>, <<NBo, Lounge>>}
InitRoom == InitWith({}, LoungeRooms, LoungeRows)

NameOf(c) == IF c = "c1" THEN NAl ELSE NBo
MaxRoomFrames == 4

NextRoom ==
  \/ \E t \in Tasks : Resume(t) \/ Finish(t)
  \/ PeerClose("c2")
  \/ \E c \in Two : RecvClosed(c)
  \/ \E c \in Two : nframes < MaxRoomFrames /\ Register(c, NameOf(c))
  \/ \E c \in Two : \E r \in Rooms : nframes < MaxRoomFrames /\ Chat(c, r)
  \/ \E c \in Two : nframes < MaxRoomFrames /\ LeaveRoom(c, Lounge)

SpecRoom == InitRoom /\ [][NextRoom]_vars

\* the number of frames of type ty that log records as sent to w with outcome ok
Count(log, ty, w, ok) ==
  Cardinality({i \in DOMAIN log : log[i].ty = ty /\ log[i].to = w /\ log[i].ok = ok})

\* C2: when the fan-out of an accepted chat frame has ended, no session has been
\* sent the message twice, and every session that was a member of the room when
\* the frame was accepted, and is still connected and in the session table, has
\* received exactly one copy.
ChatReachesEveryMember ==
  \A c \in Conns :
    (cur[c].kind = "chat" /\ cur[c].res = "ok" /\ AtBase(stack[c])) =>
      /\ \A w \in Conns : Count(flog[c], "message", w, TRUE) + Count(flog[c], "message", w, FALSE) <= 1
      /\ \A w \in cur[c].members :
            (InClients(w) /\ conn[w] = "open") => Count(flog[c], "message", w, TRUE) = 1

\* one error frame sent by the handler itself to c, and nothing else
OneError(log, c) ==
  /\ Len(log) = 1
  /\ log[1].ty = "error" /\ log[1].to = c /\ log[1].via = "direct"

\* C7: a chat frame for a room that is not among the sender's rooms is answered
\* with exactly one error frame to the sender, is sent to no session, and leaves
\* every rate window as it was.
ChatOutsideRoomRejected ==
  [][\A c \in Conns :
       (cur[c] = NoFrame /\ cur'[c].kind = "chat"
          /\ cur'[c].room \notin Get(user_rooms, cur'[c].name, {}))
       => /\ OneError(flog'[c], c)
          /\ AtBase(stack'[c])
          /\ user_message_times' = user_message_times
          /\ accepted' = accepted]_vars

ChatOutsideRoomSeen ==
  \E c \in Conns :
    /\ cur[c].kind = "chat" /\ cur[c].room = Lounge
    /\ cur[c].res = "notmember"
    /\ flog[c] = <<Sent("error", c, TRUE, "direct")>>

(***************************************************************************)
(* Specification SpecFlood: the rate limiter.  c1 (al) goes away and is    *)
(* reaped both by the heartbeat sweep and by its own handler; c2 (bo)      *)
(* renames itself to al and then sends private frames, all within one      *)
(* second.  c1 goes away when both have registered, and the sweep runs     *)
(* when there is a closed session to reap.                                 *)
(***************************************************************************)
MaxFloodFrames == 35

NextFlood ==
  \/ \E t \in Tasks : Resume(t) \/ Finish(t)
  \/ reg["c1"] /\ reg["c2"] /\ PeerClose("c1")
  \/ RecvClosed("c1")
  \/ \E c \in Two : nframes < MaxFloodFrames /\ Register(c, NameOf(c))
  \/ nframes < MaxFloodFrames /\ conn["c1"] = "closed" /\ InClients("c1") /\ Sweep
  \/ nframes < MaxFloodFrames /\ ChangeName("c2", NAl)
  \/ /\ nframes < MaxFloodFrames
     /\ InClients("c2") /\ Data("c2").username = NAl
     /\ Private("c2", NShort)

SpecFlood == Init /\ [][NextFlood]_vars

\* C3: of the chat and private frames of one non-admin session that passed flood
\* protection, no 31 lie within 60 seconds of each other.
AtMostLimitPerWindow ==
  \A c \in Conns :
    \A i \in 1..(Len(accepted[c]) - FloodLimit) :
      accepted[c][i + FloodLimit] - accepted[c][i] > FloodWindow

(***************************************************************************)
(* Specification SpecBan: bans.  banned.txt may hold the address of c1 and *)
(* c2 when the server starts.  c3 registers, elevates itself and bans al;  *)
(* c1 (al) and c2 (bo), which share an address, register.                  *)
(***************************************************************************)
NCy == <<"c","y">>                           \* "cy"
NameIn(c) == IF c = "c3" THEN NCy ELSE NameOf(c)
MaxBanFrames == 5

InitBan == \E bans \in {{}, {"ip1"}} : InitWith(bans, FreshRooms, {})

NextBan ==
  \/ \E t \in Tasks : Resume(t) \/ Finish(t)
  \/ \E c \in Conns : RecvClosed(c)
  \/ \E c \in Conns : nframes < MaxBanFrames /\ Register(c, NameIn(c))
  \/ nframes < MaxBanFrames /\ Admin("c3", "s1")
  \/ nframes < MaxBanFrames /\ Ban("c3", NAl)

SpecBan == InitBan /\ [][NextBan]_vars

\* C4: in every reachable state no session of the session table has a peer
\* address that is in the ban set.
NoBannedSession ==
  \A i \in DOMAIN clients : clients[i].ip \notin banned_ips

\* C5: a register frame from a connection whose address is in the ban set is
\* answered with exactly one error frame, after which the handler returns, and
\* it creates no session, reserves no username and creates no membership.
BannedRegisterRejected ==
  [][\A c \in Conns :
       (cur[c] = NoFrame /\ cur'[c].kind = "register" /\ IpOf(c) \in banned_ips)
       => /\ OneError(flog'[c], c)
          /\ AtBase(stack'[c])
          /\ clients' = clients
          /\ usernames' = usernames
          /\ user_counter' = user_counter
          /\ user_rooms' = user_rooms
          /\ room_users' = room_users
          /\ db_user_rooms' = db_user_rooms]_vars

\* c2 is turned away after /ban has banned the address it shares with c1,
\* which had registered from it
BannedRegisterSeen ==
  /\ InClients("c3") /\ Data("c3").is_admin
  /\ <<NAl, Main>> \in db_user_rooms
  /\ "ip1" \in banned_ips
  /\ cur["c2"].kind = "register" /\ cur["c2"].res = "banned"
  /\ flog["c2"] = <<Sent("error", "c2", TRUE, "direct")>>
  /\ ~InClients("c2")

(***************************************************************************)
(* Specification SpecPrivate: private frames.  c1 (al) and c2 (bo)         *)
(* register and send private frames to al, AL, bo and cy; c2 may go away.  *)
(***************************************************************************)
Recipients == {NAl, NAlUp, NBo, NCy}
MaxPrivateFrames == 4

NextPrivate ==
  \/ \E t \in Tasks : Resume(t) \/ Finish(t)
  \/ PeerClose("c2")
  \/ \E c \in Two : RecvClosed(c)
  \/ \E c \in Two : nframes < MaxPrivateFrames /\ Register(c, NameOf(c))
  \/ \E c \in Two : \E n \in Recipients : nframes < MaxPrivateFrames /\ Private(c, n)

SpecPrivate == Init /\ [][NextPrivate]_vars

\* C6: a private frame for name N that passes flood protection is sent as one
\* private_message, to a session whose username is N, and to no other session;
\* when it is delivered nothing else is sent; when no session is named N no
\* private_message is sent and exactly one error frame goes to the sender.
PrivateReachesOnlyTheNamed ==
  \A c \in Conns :
    (cur[c].kind = "private" /\ cur[c].res # "flood" /\ AtBase(stack[c])) =>
      LET pm == {i \in DOMAIN flog[c] : flog[c][i].ty = "private_message"} IN
      /\ \A i \in pm : flog[c][i].to \in cur[c].members
      /\ cur[c].members # {} => Cardinality(pm) = 1
      /\ (\E i \in pm : flog[c][i].ok) => Len(flog[c]) = 1
      /\ cur[c].members = {} => OneError(flog[c], c)

PrivateDelivered ==
  /\ cur["c1"].kind = "private" /\ cur["c1"].arg = NBo
  /\ flog["c1"] = <<Sent("private_message", "c2", TRUE, "direct")>>
  /\ AtBase(stack["c1"])

(***************************************************************************)
(* Specification SpecAdmin: elevation and the admin commands.  c1 (al) and *)
(* c2 (bo) register, try passphrases while the secret rotates, and issue   *)
(* the admin commands.                                                     *)
(***************************************************************************)
Passwords == Secrets \cup {""}
MaxAdminFrames == 5

NextAdmin ==
  \/ \E t \in Tasks : Resume(t) \/ Finish(t)
  \/ \E c \in Two : RecvClosed(c)
  \/ Rotate
  \/ \E c \in Two : nframes < MaxAdminFrames /\ Register(c, NameOf(c))
  \/ \E c \in Two : \E p \in Passwords : nframes < MaxAdminFrames /\ Admin(c, p)
  \/ \E c \in Two : nframes < MaxAdminFrames /\ UserInfo(c, NameOf("c2"))
  \/ \E c \in Two : nframes < MaxAdminFrames /\ Kick(c, NameOf("c2"))
  \/ \E c \in Two : nframes < MaxAdminFrames /\ Ban(c, NameOf("c2"))
  \/ \E c \in Two : nframes < MaxAdminFrames /\ CreateRoom(c, Lounge)
  \/ \E c \in Two : nframes < MaxAdminFrames /\ DeleteRoom(c, Lounge)

SpecAdmin == Init /\ [][NextAdmin]_vars

AdminOnly == {"kick", "ban", "userinfo", "createroom", "deleteroom"}

\* C8: /kick, /ban, /userinfo, /createroom or /deleteroom from a session whose
\* admin flag is unset is answered with exactly one error frame to it, and the
\* session table, the ban set and file, the catalog, the memberships, the
\* reserved names and the transports stay as they were.
NonAdminCommandRejected ==
  [][\A c \in Conns :
       (cur[c] = NoFrame /\ cur'[c].kind \in AdminOnly
          /\ InClients(c) /\ ~Data(c).is_admin)
       => /\ OneError(flog'[c], c)
          /\ AtBase(stack'[c])
          /\ clients' = clients
          /\ usernames' = usernames
          /\ banned_ips' = banned_ips
          /\ banned_file' = banned_file
          /\ db_rooms' = db_rooms
          /\ db_user_rooms' = db_user_rooms
          /\ user_rooms' = user_rooms
          /\ room_users' = room_users
          /\ conn' = conn]_vars

NonAdminBanSeen ==
  \E c \in Conns :
    /\ cur[c].kind = "ban" /\ ~cur[c].admin
    /\ cur[c].members # {}
    /\ flog[c] = <<Sent("error", c, TRUE, "direct")>>
    /\ banned_ips = {}

\* the admin flag of connection c's session in session table cl
Flag(cl, c) == HasKey(cl, c) /\ DataOf(cl, c).is_admin

\* C9: a session's admin flag becomes true only in the step that handles an
\* /admin frame of that session whose passphrase equals the admin secret of that
\* moment; an /admin frame with any other passphrase leaves the session table
\* as it was and is answered with exactly one error frame.
AdminOnlyByCurrentSecret ==
  [][\A c \in Conns :
       /\ (~Flag(clients, c) /\ Flag(clients', c))
            => (cur[c] = NoFrame /\ cur'[c].kind = "admin"
                  /\ cur'[c].arg = admin_password)
       /\ (cur[c] = NoFrame /\ cur'[c].kind = "admin" /\ cur'[c].arg # admin_password)
            => (clients' = clients /\ OneError(flog'[c], c) /\ AtBase(stack'[c]))]_vars

\* the secret the server started with is refused after a rotation
RotatedSecretRefused ==
  \E c \in Conns :
    /\ cur[c].kind = "admin" /\ cur[c].arg = "s1"
    /\ admin_password = "s2"
    /\ flog[c] = <<Sent("error", c, TRUE, "direct")>>
    /\ ~Flag(clients, c)

(***************************************************************************)
(* Specification SpecMain: the permanence of main.  chat_rooms.db holds    *)
(* lounge and the memberships of al and bo; c1 (al) and c2 (bo) register,  *)
(* elevate themselves, and try to delete and to leave rooms.               *)
(***************************************************************************)
HashMain == <<"#">> \o Main                 \* "#main"
MaxMainFrames == 5

NextMain ==
  \/ \E t \in Tasks : Resume(t) \/ Finish(t)
  \/ \E c \in Two : nframes < MaxMainFrames /\ Register(c, NameOf(c))
  \/ \E c \in Two : nframes < MaxMainFrames /\ Admin(c, "s1")
  \/ \E c \in Two : \E a \in {Main, HashMain, Lounge} :
        nframes < MaxMainFrames /\ DeleteRoom(c, a)
  \/ \E c \in Two : nframes < MaxMainFrames /\ LeaveRoom(c, Main)
  \/ \E c \in Two : nframes < MaxMainFrames /\ Left(c)

SpecMain == InitRoom /\ [][NextMain]_vars

\* the memberships of main, in the two indexes and in the table, are kept
MainMembershipsKept ==
  /\ room_users'[Main] = room_users[Main]
  /\ \A u \in DOMAIN user_rooms :
       Main \in user_rooms[u] => (u \in DOMAIN user_rooms' /\ Main \in user_rooms'[u])
  /\ {p \in db_user_rooms' : p[2] = Main} = {p \in db_user_rooms : p[2] = Main}

\* C10: main is active in the catalog in every reachable state; a /deleteroom
\* for main, a leave_room frame for main and /left remove no membership of main;
\* and a /deleteroom for main, a leave_room frame for main, and a /left of a
\* session that is in no room but main, are each answered with one error frame.
MainIsPermanent ==
  /\ [](IsActive(db_rooms, Main))
  /\ [][\A c \in Conns :
          LET f == cur'[c] IN
          /\ (cur[c] = NoFrame /\ f.kind \in {"deleteroom", "leave_room", "left"})
               => (f.kind = "deleteroom" /\ f.room # Main) \/ MainMembershipsKept
          /\ (cur[c] = NoFrame
                /\ \/ f.kind \in {"deleteroom", "leave_room"} /\ f.room = Main
                   \/ f.kind = "left" /\ Get(user_rooms, f.name, {}) \subseteq {Main})
               => (OneError(flog'[c], c) /\ AtBase(stack'[c]))]_vars

\* an admin's /deleteroom main has been refused
DeleteMainRefused ==
  \E c \in Conns :
    /\ cur[c].kind = "deleteroom" /\ cur[c].room = Main /\ cur[c].admin
    /\ flog[c] = <<Sent("error", c, TRUE, "direct")>>
    /\ IsActive(db_rooms, Main)
    /\ cur[c].name \in room_users[Main]

(***************************************************************************)
(* The indexes of the identity registry and of the memberships, under      *)
(* Spec: every state of the model is a point where the event loop may      *)
(* switch to another task.                                                 *)
(***************************************************************************)
\* C11: in every reachable state every session of the session table is a member
\* of main in both indexes: main is in the room set kept under its username and
\* its username is in the member set of main.
SessionsAreInMain ==
  \A i \in DOMAIN clients :
    LET u == clients[i].username IN
    /\ u \in DOMAIN user_rooms /\ Main \in user_rooms[u]
    /\ u \in room_users[Main]

\* the usernames of the sessions of the session table
SessionNames == {clients[i].username : i \in DOMAIN clients}

\* C12: in every reachable state the set of reserved usernames equals the set
\* of usernames of the sessions of the session table.
ReservedAreTheSessions == usernames = SessionNames

(***************************************************************************)
(* handle_public_key_register                                              *)
(***************************************************************************)
\* the key a connection registers
KeyOf(c) == "key-" \o c

\* a register_key frame with a public key
RegisterKey(c) ==
  /\ Ready(c)
  /\ LET d == Data(c)
         u == d.username IN
     Handle(c, [Mach(c) EXCEPT !.pk = Put(@, u, KeyOf(c))],
            Frame("register_key", None, None, d.is_admin, "ok", u, {}),
            <<OpSend(c, "key_registered"), OpBcast(All, "users_list", None), OpRosters(u)>>)
  /\ UNCHANGED <<rest_disk, accepted>>

(***************************************************************************)
(* Specification SpecRename: /changeuname.  chat_rooms.db holds lounge and *)
(* the memberships of al and bo in it.  c1 (al) and c2 (bo) register; c1   *)
(* may go away; c2 registers a key, chats and renames itself, to names     *)
(* that are free, taken, its own, malformed, too short and too long.       *)
(***************************************************************************)
NLong == <<"a","a","a","a","a","a","a","a","a","a","a","a","a","a","a","a","a","a","a","a","a">>
RenameArgs == {NAl, NAlUp, NBo, NCy, NShort, NBad, NLong}
MaxRenameFrames == 4

NextRename ==
  \/ \E t \in Tasks : Resume(t) \/ Finish(t)
  \/ PeerClose("c1")
  \/ \E c \in Two : RecvClosed(c)
  \/ \E c \in Two : nframes < MaxRenameFrames /\ Register(c, NameOf(c))
  \/ \E n \in RenameArgs : nframes < MaxRenameFrames /\ ChangeName("c2", n)
  \/ \E c \in Two : nframes < MaxRenameFrames /\ Chat(c, Main)
  \/ nframes < MaxRenameFrames /\ RegisterKey("c2")

SpecRename == InitRoom /\ [][NextRename]_vars

\* the dictionary d holds under new what it held under old, and nothing under old
KeyMoved(d, e, old, new) ==
  /\ old \notin DOMAIN e
  /\ old \in DOMAIN d => (new \in DOMAIN e /\ e[new] = d[old])

\* C13: the step in which the username of a session changes from old to new is
\* the step that handles a /changeuname of that session, and in that same step
\* the reserved names, the public keys, the rate windows and both membership
\* indexes pass from old to new; a chat frame is accepted under the username the
\* sender's session has at that moment.
RenameIsAtomic ==
  [][\A c \in Conns :
       /\ (HasKey(clients, c) /\ HasKey(clients', c)
             /\ DataOf(clients', c).username # DataOf(clients, c).username)
          => LET old == DataOf(clients, c).username
                 new == DataOf(clients', c).username IN
             /\ cur[c] = NoFrame /\ cur'[c].kind = "changeuname" /\ cur'[c].arg = new
             /\ old \notin usernames' /\ new \in usernames'
             /\ KeyMoved(public_keys, public_keys', old, new)
             /\ KeyMoved(user_message_times, user_message_times', old, new)
             /\ KeyMoved(user_rooms, user_rooms', old, new)
             /\ \A r \in Rooms :
                  /\ old \notin room_users'[r]
                  /\ old \in room_users[r] => new \in room_users'[r]
       /\ (cur[c] = NoFrame /\ cur'[c].kind = "chat" /\ cur'[c].res = "ok")
          => cur'[c].name = DataOf(clients', c).username]_vars

\* a name outside the grammar [a-zA-Z0-9_-]+
Malformed(n) == \E i \in DOMAIN n : n[i] \notin NameChars

\* a name that /changeuname must refuse while the names of taken are reserved
Unacceptable(n, taken) ==
  \/ Malformed(n)
  \/ Len(n) < MinNameLen \/ Len(n) > MaxNameLen
  \/ \E u \in taken : Lower(u) = Lower(n)

\* C14: a /changeuname to a name that is malformed, shorter than 2 or longer
\* than 20, or equal after case-folding to a reserved name (the sender's own
\* included) is answered with exactly one error frame to the sender and leaves
\* the reserved names, the session table, the public keys, the rate windows,
\* both membership indexes and the persisted membership rows as they were.
RenameRefused ==
  [][\A c \in Conns :
       (cur[c] = NoFrame /\ cur'[c].kind = "changeuname"
          /\ Unacceptable(cur'[c].arg, usernames))
       => /\ OneError(flog'[c], c)
          /\ AtBase(stack'[c])
          /\ usernames' = usernames
          /\ clients' = clients
          /\ public_keys' = public_keys
          /\ user_message_times' = user_message_times
          /\ user_rooms' = user_rooms
          /\ room_users' = room_users
          /\ db_user_rooms' = db_user_rooms]_vars

\* bo, holding a key, has asked for AL while al is reserved
RenameToFoldedTwinSeen ==
  /\ cur["c2"].kind = "changeuname" /\ cur["c2"].arg = NAlUp
  /\ NAl \in usernames /\ NAlUp \notin usernames
  /\ InClients("c2") /\ Data("c2").username = NBo
  /\ NBo \in DOMAIN public_keys
  /\ flog["c2"] = <<Sent("error", "c2", TRUE, "direct")>>

(***************************************************************************)
(* The order of delivery, under SpecRoom                                   *)
(***************************************************************************)
\* the messages of inbox box that sender c's frames for room r produced
FromIn(box, c, r) == SelectSeq(box, LAMBDA m : m.from = c /\ m.room = r)

\* C15: in every reachable state, for every sender and room, every session has
\* received that sender's messages for that room in the order in which their
\* frames arrived, each at most once; and a connection's handler has a frame in
\* hand whenever it has coroutines to run, and keeps that frame until its
\* handling ends: it takes up no other frame meanwhile.
DeliveredInSendOrder ==
  /\ [](\A w, c \in Conns : \A r \in Rooms :
          LET q == FromIn(inbox[w], c, r) IN
          \A i, j \in DOMAIN q : i < j => q[i].seq < q[j].seq)
  /\ [](\A c \in Conns : cur[c].kind = None => stack[c] = <<>>)
  /\ [][\A c \in Conns :
          cur[c].kind # None =>
            \/ cur'[c].kind = None
            \/ cur'[c].kind = cur[c].kind /\ cur'[c].seq = cur[c].seq]_vars

\* bo has received two chat frames of al for lounge, the earlier one first
TwoInOrderSeen ==
  LET q == FromIn(inbox["c2"], "c1", Lounge) IN
  /\ Len(q) = 2 /\ q[1].seq < q[2].seq
  /\ Len(FromIn(inbox["c1"], "c1", Lounge)) = 2

(***************************************************************************)
(* Room deletion, under SpecMain                                           *)
(***************************************************************************)
\* C16: when the handling of a successful /deleteroom R has ended, every session
\* that was a member of R when the command was processed, and is still connected
\* and in the session table, has been sent a room_deleted frame by the fan-out
\* to R.
DeleteReachesEveryMember ==
  \A c \in Conns :
    (cur[c].kind = "deleteroom" /\ cur[c].res = "ok" /\ AtBase(stack[c])) =>
      \A w \in cur[c].members :
        (InClients(w) /\ conn[w] = "open") =>
          \E i \in DOMAIN flog[c] :
            /\ flog[c][i].ty = "room_deleted" /\ flog[c][i].to = w
            /\ flog[c][i].via = "fanout" /\ flog[c][i].ok


(***************************************************************************)
(* Specification SpecDelete: a deleted room.  chat_rooms.db holds lounge   *)
(* and the memberships of al and bo in it.  c1 (al) and c2 (bo) register;  *)
(* c1 elevates itself and deletes lounge; both chat in lounge and c2 joins *)
(* it, by frame and by command; c2 may go away.                            *)
(***************************************************************************)
HashLounge == <<"#">> \o Lounge             \* "#lounge"
MaxDeleteFrames == 4

NextDelete ==
  \/ \E t \in Tasks : Resume(t) \/ Finish(t)
  \/ PeerClose("c2")
  \/ \E c \in Two : RecvClosed(c)
  \/ \E c \in Two : nframes < MaxDeleteFrames /\ Register(c, NameOf(c))
  \/ nframes < MaxDeleteFrames /\ Admin("c1", "s1")
  \/ nframes < MaxDeleteFrames /\ DeleteRoom("c1", Lounge)
  \/ \E c \in Two : nframes < MaxDeleteFrames /\ Chat(c, Lounge)
  \/ nframes < MaxDeleteFrames /\ JoinRoom("c2", Lounge, FALSE)
  \/ nframes < MaxDeleteFrames /\ JoinRoom("c2", HashLounge, TRUE)

SpecDelete == InitRoom /\ [][NextDelete]_vars

\* room r is in the catalog and is not active
Deleted(rooms, r) == r \in DOMAIN rooms /\ ~rooms[r]

\* no membership of room r is left, persisted or in memory
NoMembership(dur, ur, ru, r) ==
  /\ \A p \in dur : p[2] # r
  /\ ru[r] = {}
  /\ \A u \in DOMAIN ur : r \notin ur[u]

\* C17: the step of a successful /deleteroom R leaves R inactive and leaves no
\* membership of R in the table of memberships or in either index; and while R
\* is deleted every chat frame for R and every join of R, by frame or by
\* command, is answered with exactly one error frame and changes no membership.
DeletedRoomIsClosed ==
  [][\A c \in Conns :
       LET f == cur'[c] IN
       /\ (cur[c] = NoFrame /\ f.kind = "deleteroom" /\ f.res = "ok")
          => /\ Deleted(db_rooms', f.room)
             /\ NoMembership(db_user_rooms', user_rooms', room_users', f.room)
       /\ (cur[c] = NoFrame /\ f.kind \in {"chat", "join", "join_room"}
             /\ f.room \in Rooms /\ Deleted(db_rooms, f.room))
          => /\ OneError(flog'[c], c)
             /\ AtBase(stack'[c])
             /\ db_user_rooms' = db_user_rooms
             /\ room_users' = room_users
             /\ \A u \in DOMAIN user_rooms' : f.room \notin user_rooms'[u]]_vars

(***************************************************************************)
(* The catalog, under SpecAdmin                                            *)
(***************************************************************************)
\* C18: a /createroom for a name that is in the catalog, active or deleted, is
\* answered with exactly one error frame and leaves the catalog, the
\* memberships and the session table as they were; and a room that is deleted
\* stays deleted.
CreateExistingRefused ==
  [][/\ \A c \in Conns :
          (cur[c] = NoFrame /\ cur'[c].kind = "createroom"
             /\ cur'[c].room \in DOMAIN db_rooms)
          => /\ OneError(flog'[c], c)
             /\ AtBase(stack'[c])
             /\ db_rooms' = db_rooms
             /\ db_user_rooms' = db_user_rooms
             /\ user_rooms' = user_rooms
             /\ room_users' = room_users
             /\ clients' = clients
     /\ \A r \in Rooms : Deleted(db_rooms, r) => Deleted(db_rooms', r)]_vars

\* an admin's /createroom lounge has been refused while lounge is deleted
RecreateRefused ==
  \E c \in Conns :
    /\ cur[c].kind = "createroom" /\ cur[c].room = Lounge /\ cur[c].admin
    /\ cur[c].res = "refused"
    /\ Deleted(db_rooms, Lounge)
    /\ flog[c] = <<Sent("error", c, TRUE, "direct")>>

(***************************************************************************)
(* Rehydration, under SpecMain                                             *)
(***************************************************************************)
\* C19: the step of a successful registration under name N leaves, under N, the
\* room set made of main and of the active rooms for which the table of
\* memberships held a row (N, room) when the frame arrived.
RegisteredRoomsAreThePersisted ==
  [][\A c \in Conns :
       (cur[c] = NoFrame /\ cur'[c].kind = "register" /\ cur'[c].res = "ok")
       => LET n == cur'[c].name IN
          /\ n \in DOMAIN user_rooms'
          /\ user_rooms'[n] =
               {r \in Rooms : IsActive(db_rooms, r) /\ <<n, r>> \in db_user_rooms} \cup {Main}]_vars

\* al has registered and is in main, joined now, and in lounge, found in the table
RehydratedSeen ==
  /\ cur["c1"].kind = "register" /\ cur["c1"].res = "ok" /\ cur["c1"].name = NAl
  /\ NAl \in DOMAIN user_rooms /\ user_rooms[NAl] = {Main, Lounge}
  /\ <<NAl, Main>> \in db_user_rooms /\ <<NAl, Lounge>> \in db_user_rooms
  /\ IsActive(db_rooms, Lounge)

(***************************************************************************)
(* Specification SpecSession: the frames of a connection before and after  *)
(* its registration.  c1 and c2 send register frames (with a name, or with *)
(* none), register frames after they have registered, and other frames     *)
(* before they have; either may go away with frames still unread.          *)
(***************************************************************************)
\* a register frame on a connection whose handler has user_data and whose
\* websocket is in self.clients: handle_message returns
RegisterAgain(c) ==
  /\ Ready(c)
  /\ Handle(c, Mach(c), Frame("register", None, None, Data(c).is_admin, "ignored",
                              Data(c).username, {}), <<>>)
  /\ UNCHANGED <<rest_disk, accepted>>

MaxSessionFrames == 3

NextSession ==
  \/ \E t \in Tasks : Resume(t) \/ Finish(t)
  \/ \E c \in Two : PeerClose(c) \/ RecvClosed(c)
  \/ \E c \in Two : \E n \in RegNames : nframes < MaxSessionFrames /\ Register(c, n)
  \/ \E c \in Two : nframes < MaxSessionFrames /\ RegisterAgain(c)
  \/ \E c \in Two : nframes < MaxSessionFrames /\ Unregistered(c)
  \/ \E c \in Two : nframes < MaxSessionFrames /\ Dropped(c)

SpecSession == Init /\ [][NextSession]_vars

\* C20: a register frame on a connection that has registered is answered with
\* nothing and changes no state; a frame that is not register on a connection
\* that has not registered is answered with exactly one error frame and changes
\* no state; and a register frame creates a session only on a connection that
\* has none in the session table.
OneSessionPerConnection ==
  [][\A c \in Conns :
       /\ (cur[c] = NoFrame /\ cur'[c].kind = "register" /\ reg[c])
          => (flog'[c] = <<>> /\ AtBase(stack'[c]) /\ mem' = mem /\ disk' = disk)
       /\ (cur[c] = NoFrame /\ cur'[c].kind = "unregistered")
          => (OneError(flog'[c], c) /\ AtBase(stack'[c]) /\ mem' = mem /\ disk' = disk)
       /\ (cur[c] = NoFrame /\ cur'[c].kind = "register" /\ cur'[c].res = "ok")
          => ~InClients(c)]_vars

(***************************************************************************)
(* Rejected frames, under Spec                                             *)
(***************************************************************************)
\* what the synchronous part of a handler decides when it rejects the frame
Rejections == {"invalid", "denied", "refused", "nouser", "notmember", "flood", "usage",
               "onlymain"}

\* C21: when the handling of a rejected frame ends, exactly one error frame has
\* been sent, to the connection the frame came from, and the connection's
\* handler goes on to its next frame with the transport as it was.
RejectedKeepsConnection ==
  [][\A c \in Conns :
       (cur[c].res \in Rejections /\ cur'[c].kind = None)
       => /\ OneError(flog[c], c)
          /\ hstate'[c] = "loop"
          /\ conn'[c] = conn[c]]_vars


(***************************************************************************)
(* Specification SpecDrop: frames of a registered connection that lack a   *)
(* field, and commands that name nobody.                                   *)
(***************************************************************************)
\* the frames handle_message tests for a field: private (recipient_username
\* and encrypted_content), join_room and leave_room (room_name), register_key
\* (public_key), and any other type (content)
FieldKinds == {"private", "join_room", "leave_room", "register_key", "text"}

\* a frame of kind k whose field is absent or empty: `if <field>:` is false
\* and the branch ends in `return`; `if not content: return`
Incomplete(c, k) ==
  /\ Ready(c)
  /\ Handle(c, Mach(c), Frame(k, <<>>, None, Data(c).is_admin, "incomplete",
                              Data(c).username, {}), <<>>)
  /\ UNCHANGED <<rest_disk, accepted>>

MaxDropFrames == 4

NextDrop ==
  \/ \E t \in Tasks : Resume(t) \/ Finish(t)
  \/ \E c \in Two : nframes < MaxDropFrames /\ Register(c, NameOf(c))
  \/ \E c \in Two : \E k \in FieldKinds : nframes < MaxDropFrames /\ Incomplete(c, k)
  \/ nframes < MaxDropFrames /\ Admin("c1", "s1")
  \/ \E n \in {NBo, NCy} : nframes < MaxDropFrames /\ Kick("c1", n)
  \/ \E c \in Two : nframes < MaxDropFrames /\ Private(c, NCy)

SpecDrop == Init /\ [][NextDrop]_vars

\* what the synchronous part decides when it does not carry the frame out
NotCarriedOut == Rejections \cup {"incomplete"}

\* C22: when the handling of a frame of a registered session whose action was
\* not carried out has ended, exactly one error frame has been sent to the
\* sender: no frame is dropped without an answer.
NoSilentDrop ==
  \A c \in Conns :
    (cur[c].kind # None /\ cur[c].kind # "register" /\ cur[c].res \in NotCarriedOut
       /\ AtBase(stack[c]))
    => OneError(flog[c], c)


(***************************************************************************)
(* Specification SpecKick: an admin kicks a session that goes on sending   *)
(* frames.  Every task the event loop can run is run eventually, and a     *)
(* handler waiting on a closed transport gets ConnectionClosed.            *)
(***************************************************************************)
MaxKickFrames == 5

NextKick ==
  \/ \E t \in Tasks : Resume(t) \/ Finish(t)
  \/ \E c \in Two : RecvClosed(c)
  \/ \E c \in Two : nframes < MaxKickFrames /\ Register(c, NameOf(c))
  \/ nframes < MaxKickFrames /\ Admin("c1", "s1")
  \/ nframes < MaxKickFrames /\ Kick("c1", NBo)
  \/ nframes < MaxKickFrames /\ LeaveRoom("c2", Lounge)

\* asyncio runs every ready task; recv on a closed transport raises
Scheduling ==
  /\ \A t \in Tasks : WF_vars(Resume(t)) /\ WF_vars(Finish(t))
  /\ \A c \in Two : WF_vars(RecvClosed(c))

SpecKick == InitRoom /\ [][NextKick]_vars /\ Scheduling

\* C23: after an admin's /kick of the name of a live session has been taken up,
\* that session is eventually removed from the session table.
KickedIsRemoved ==
  (cur["c1"].kind = "kick" /\ cur["c1"].res = "ok" /\ cur["c1"].members = {"c2"})
    ~> ~InClients("c2")


(***************************************************************************)
(* Specification SpecElevated: a session that elevates itself and sends    *)
(* more than FloodLimit chat and private frames within one second.         *)
(* Both connections register first; c1 sends /admin until it is elevated,  *)
(* and private frames once FloodLimit frames have arrived.                 *)
(***************************************************************************)
MaxElevatedFrames == 35

NextElevated ==
  \/ \E t \in Tasks : Resume(t) \/ Finish(t)
  \/ \E c \in Two : nframes < 2 /\ Register(c, NameOf(c))
  \/ nframes < MaxElevatedFrames /\ ~Flag(clients, "c1") /\ Admin("c1", "s1")
  \/ nframes < MaxElevatedFrames /\ Chat("c1", Main)
  \/ nframes < MaxElevatedFrames /\ nframes >= FloodLimit /\ Private("c1", NAl)

SpecElevated == Init /\ [][NextElevated]_vars

\* C24: a chat or private frame of a session whose admin flag is set is not
\* rejected by flood protection, and taking it up leaves every rate window as
\* it was.
ElevatedNeverLimited ==
  [][\A c \in Conns :
       (cur[c].kind = None /\ cur'[c].kind \in {"chat", "private"} /\ Flag(clients, c))
       => /\ cur'[c].res # "flood"
          /\ user_message_times' = user_message_times]_vars

\* an admin's private frame is accepted after FloodLimit of its chat frames
\* were delivered in the same second, none of them counted in a rate window
ElevatedPastLimitSeen ==
  /\ cur["c1"].kind = "private" /\ cur["c1"].admin /\ cur["c1"].res = "ok"
  /\ Len(inbox["c1"]) >= FloodLimit
  /\ NAl \notin DOMAIN user_message_times
  /\ now = 0


(***************************************************************************)
(* Specification SpecWindow: one session fills its rate window, is         *)
(* rejected, and goes on sending while time passes.  The clock advances    *)
(* once the window is one frame short of full; private frames are sent     *)
(* once FloodLimit frames have arrived.                                    *)
(***************************************************************************)
MaxWindowFrames == 34
MaxNow == 62

NextWindow ==
  \/ \E t \in Tasks : Resume(t) \/ Finish(t)
  \/ nframes < MaxWindowFrames /\ Register("c1", NAl)
  \/ nframes < MaxWindowFrames /\ Chat("c1", Main)
  \/ nframes < MaxWindowFrames /\ nframes >= FloodLimit /\ Private("c1", NAl)
  \/ /\ now < MaxNow
     /\ Len(Get(user_message_times, NAl, <<>>)) >= FloodLimit - 1
     /\ Tick

SpecWindow == Init /\ [][NextWindow]_vars

\* the timestamps of `times` that lie within the last FloodWindow seconds
Within(times, t) == SelectSeq(times, LAMBDA x : t - x <= FloodWindow)

\* C25: a chat or private frame of a non-admin session is rejected by flood
\* protection exactly when FloodLimit accepted timestamps of the sender lie
\* within the last FloodWindow seconds; a rejected frame adds no timestamp to
\* the sender's window and counts as accepted nowhere, and when its handling
\* has ended the only frame sent is the error to the sender.
RejectedCountsNothing ==
  /\ [](\A c \in Conns :
          (cur[c].kind \in {"chat", "private"} /\ cur[c].res = "flood" /\ AtBase(stack[c]))
          => OneError(flog[c], c))
  /\ [][\A c \in Conns :
          (cur[c].kind = None /\ cur'[c].kind \in {"chat", "private"}
             /\ ~Flag(clients, c) /\ cur'[c].res # "notmember")
          => LET u == DataOf(clients, c).username
                 w == Within(Get(user_message_times, u, <<>>), now) IN
             /\ (cur'[c].res = "flood") <=> (Len(w) >= FloodLimit)
             /\ (cur'[c].res = "flood")
                => /\ user_message_times'[u] = w
                   /\ accepted' = accepted
                   /\ inbox' = inbox]_vars

\* the sender was rejected with a full window and is accepted again once the
\* window's timestamps are more than FloodWindow seconds old
AcceptedAgainSeen ==
  /\ cur["c1"].kind = "chat" /\ cur["c1"].res = "ok"
  /\ Len(accepted["c1"]) = FloodLimit + 1
  /\ accepted["c1"][FloodLimit + 1] - accepted["c1"][1] = FloodWindow + 1
  /\ nframes >= FloodLimit + 3


(***************************************************************************)
(* Specification SpecKept: sessions elevate themselves with the first      *)
(* secret and rename themselves, and c2 goes away, while the secret        *)
(* rotates.                                                                *)
(***************************************************************************)
MaxKeptFrames == 4

NextKept ==
  \/ \E t \in Tasks : Resume(t) \/ Finish(t)
  \/ PeerClose("c2")
  \/ \E c \in Two : RecvClosed(c)
  \/ Rotate
  \/ \E c \in Two : nframes < MaxKeptFrames /\ Register(c, NameOf(c))
  \/ \E c \in Two : nframes < MaxKeptFrames /\ Admin(c, "s1")
  \/ \E c \in Two : nframes < MaxKeptFrames /\ ChangeName(c, NCy)

SpecKept == Init /\ [][NextKept]_vars

\* C26: a session whose admin flag is set keeps it for as long as its record is
\* in the session table, whatever rotates or renames in between.
AdminFlagKept ==
  [][\A c \in Conns : (Flag(clients, c) /\ HasKey(clients', c)) => Flag(clients', c)]_vars

\* a session elevated with the first secret is renamed, and still an admin,
\* while the current secret is another one
KeptAcrossRotationAndRename ==
  /\ Flag(clients, "c1") /\ DataOf(clients, "c1").username = NCy
  /\ cur["c1"].kind = "changeuname" /\ cur["c1"].res = "ok" /\ cur["c1"].admin
  /\ admin_password = "s2"


(***************************************************************************)
(* Specification SpecSlash: text that begins with '/'.                     *)
(***************************************************************************)
MaxSlashFrames == 4

NextSlash ==
  \/ \E t \in Tasks : Resume(t) \/ Finish(t)
  \/ \E c \in Two : nframes < MaxSlashFrames /\ Register(c, NameOf(c))
  \/ \E c \in Two : \E r \in Rooms : nframes < MaxSlashFrames /\ Unrecognized(c, r)
  \/ \E c \in Two : \E p \in Passwords : nframes < MaxSlashFrames /\ Admin(c, p)
  \/ \E c \in Two : nframes < MaxSlashFrames /\ ChangeName(c, <<>>)

SpecSlash == Init /\ [][NextSlash]_vars

\* C27: while a text frame whose content begins with '/' is handled, no chat
\* message is sent to anybody.
SlashIsNeverChat ==
  \A c \in Conns :
    cur[c].kind \in {"slash", "admin", "changeuname"}
    => \A i \in DOMAIN flog[c] : flog[c][i].ty # "message"


(***************************************************************************)
(* Specification SpecUnreg: c1 registers, goes away with frames still      *)
(* unread and is unregistered by the heartbeat sweep, by a fan-out and by  *)
(* its own handler.  The rooms table holds lounge, without members.        *)
(***************************************************************************)
InitOpen == InitWith({}, LoungeRooms, {})
MaxUnregFrames == 4

NextUnreg ==
  \/ \E t \in Tasks : Resume(t) \/ Finish(t)
  \/ PeerClose("c1")
  \/ RecvClosed("c1")
  \/ \E c \in Two : nframes < MaxUnregFrames /\ conn[c] = "open" /\ Register(c, NameOf(c))
  \/ nframes < MaxUnregFrames /\ conn["c1"] = "closed" /\ InClients("c1") /\ Sweep
  \/ nframes < MaxUnregFrames /\ JoinRoom("c1", Lounge, FALSE)
  \/ nframes < MaxUnregFrames /\ ChangeName("c1", NCy)
  \/ nframes < MaxUnregFrames /\ RegisterKey("c1")

SpecUnreg == InitOpen /\ [][NextUnreg]_vars

\* task t is inside unregister_client(ws), before its clean-up, and ws is not
\* in the session table
Stale(t) ==
  \E i \in DOMAIN stack[t] :
    stack[t][i].fn = "unreg" /\ stack[t][i].pc # "end" /\ ~InClients(stack[t][i].ws)

\* C28: an invocation of unregister for a session that is no longer in the
\* session table raises nothing and changes none of the shared indexes.
UnregisterIsIdempotent ==
  [][\A t \in Tasks :
       (Stale(t) /\ stack'[t] # stack[t])
       => /\ ~(Len(stack'[t]) = 1 /\ Head(stack'[t]).fn = "exc")
          /\ <<usernames, public_keys, user_message_times, user_rooms, room_users>>' =
             <<usernames, public_keys, user_message_times, user_rooms, room_users>>]_vars

\* C29: when unregister deletes a session's record, the name the session
\* carries is not reserved, has no key and no rate window, and is a member of
\* no room in either membership index.
UnregisterLeavesNoTrace ==
  [][\A c \in Conns :
       (HasKey(clients, c) /\ ~HasKey(clients', c))
       => LET u == DataOf(clients, c).username IN
          /\ u \notin usernames'
          /\ u \notin DOMAIN public_keys'
          /\ u \notin DOMAIN user_message_times'
          /\ Get(user_rooms', u, {}) = {}
          /\ \A r \in DOMAIN room_users' : u \notin room_users'[r]]_vars


(***************************************************************************)
(* Specification SpecPersist: memberships and their rows.  chat_rooms.db   *)
(* holds lounge and the rows of al and bo, who were members of it; c1 (al) *)
(* and c2 (bo) register, join and leave lounge, c1 goes away and c2        *)
(* renames itself.                                                         *)
(***************************************************************************)
MaxPersistFrames == 4

NextPersist ==
  \/ \E t \in Tasks : Resume(t) \/ Finish(t)
  \/ PeerClose("c1")
  \/ RecvClosed("c1")
  \/ \E c \in Two : nframes < MaxPersistFrames /\ conn[c] = "open" /\ Register(c, NameOf(c))
  \/ \E c \in Two : nframes < MaxPersistFrames /\ JoinRoom(c, Lounge, FALSE)
  \/ \E c \in Two : nframes < MaxPersistFrames /\ LeaveRoom(c, Lounge)
  \/ \E n \in {NAl, NCy} : nframes < MaxPersistFrames /\ ChangeName("c2", n)

SpecPersist == InitRoom /\ [][NextPersist]_vars

\* no task has a frame in hand
Quiescent == \A t \in Tasks : stack[t] = <<>>

\* the active rooms for which the user_rooms table holds a row of username u
PersistedRooms(u) == {r \in DOMAIN db_rooms : db_rooms[r] /\ <<u, r>> \in db_user_rooms}

\* C30: whenever no frame is being processed, the room set of every session of
\* the session table is the set of active rooms for which a row of its name is
\* persisted.
RoomsAreThePersistedRows ==
  Quiescent =>
    \A i \in DOMAIN clients :
      Get(user_rooms, clients[i].username, {}) = PersistedRooms(clients[i].username)


(***************************************************************************)
(* Specification SpecStore: the files fail and recover at any moment.  The *)
(* server starts on an empty catalog or on one that holds lounge with its  *)
(* members al and bo; c1 (al) elevates itself, creates and deletes lounge  *)
(* and bans bo; c2 (bo) joins and leaves lounge and renames itself.        *)
(***************************************************************************)
InitStore == Init \/ InitRoom
MaxStoreFrames == 4

NextStore ==
  \/ \E t \in Tasks : Resume(t) \/ Finish(t)
  \/ Outage
  \/ \E c \in Two : nframes < MaxStoreFrames /\ Register(c, NameOf(c))
  \/ nframes < MaxStoreFrames /\ Admin("c1", "s1")
  \/ nframes < MaxStoreFrames /\ CreateRoom("c1", Lounge)
  \/ nframes < MaxStoreFrames /\ DeleteRoom("c1", Lounge)
  \/ nframes < MaxStoreFrames /\ JoinRoom("c2", Lounge, FALSE)
  \/ nframes < MaxStoreFrames /\ LeaveRoom("c2", Lounge)
  \/ nframes < MaxStoreFrames /\ ChangeName("c2", NCy)
  \/ nframes < MaxStoreFrames /\ Ban("c1", NBo)

SpecStore == InitStore /\ [][NextStore]_vars

\* frame kinds whose handler calls the store before it changes memory
StoreFirst == {"createroom", "deleteroom", "join_room", "leave_room"}

\* the handler of c's frame has returned (no exception ended it)
Returned(c) == Len(stack[c]) = 1 /\ Head(stack[c]).fn = "seq" /\ Head(stack[c]).ops = <<>>

\* C31, as stated: with the store failing, /createroom and /deleteroom are
\* rejected and change nothing in memory, and a join of an active room, a
\* leave of a room other than main, a rename to an acceptable name and a ban of
\* a live session are carried out.
StoreFailureAsStated ==
  [][\A c \in Conns :
       (cur[c].kind = None /\ cur'[c].kind # None /\ ~db_up)
       => /\ cur'[c].kind \in {"createroom", "deleteroom"}
             => (cur'[c].res \in Rejections /\ mem' = mem)
          /\ (cur'[c].kind = "join_room" /\ IsActive(db_rooms, cur'[c].room))
             => cur'[c].res = "ok"
          /\ (cur'[c].kind = "leave_room" /\ cur'[c].room # Main)
             => cur'[c].res = "ok"
          /\ (cur'[c].kind = "changeuname" /\ cur'[c].res \notin {"usage", "invalid"})
             => cur'[c].res = "ok"
          /\ (cur'[c].kind = "ban" /\ cur'[c].res \notin {"denied", "nouser"})
             => cur'[c].res = "ok"]_vars

\* C31, amended: with the store failing, /createroom, /deleteroom, join_room
\* and leave_room are rejected and change neither memory nor the tables, and
\* their handling ends with one error to the sender; a rename to an acceptable
\* name is carried out in memory, answered with username_changed, and leaves
\* the rows as they were; a ban of a live session adds its address to the ban
\* set, and when its handler returns the last frame sent is ban_success.
StoreFailure ==
  /\ [](\A c \in Conns :
          /\ (cur[c].kind \in StoreFirst /\ cur[c].res \in Rejections /\ AtBase(stack[c]))
             => OneError(flog[c], c)
          /\ (cur[c].kind = "ban" /\ cur[c].res = "ok" /\ Returned(c))
             => /\ flog[c][Len(flog[c])].ty = "ban_success"
                /\ flog[c][Len(flog[c])].to = c)
  /\ [][\A c \in Conns :
          (cur[c].kind = None /\ cur'[c].kind # None /\ ~db_up)
          => /\ cur'[c].kind \in StoreFirst
                => (cur'[c].res \in Rejections /\ mem' = mem /\ disk' = disk)
             /\ (cur'[c].kind = "changeuname" /\ cur'[c].res \notin {"usage", "invalid"})
                => /\ cur'[c].res = "ok"
                   /\ DataOf(clients', c).username = cur'[c].arg
                   /\ cur'[c].arg \in usernames' /\ cur'[c].name \notin usernames'
                   /\ flog'[c][1].ty = "username_changed"
                   /\ db_user_rooms' = db_user_rooms
             /\ (cur'[c].kind = "ban" /\ cur'[c].res \notin {"denied", "nouser"})
                => /\ cur'[c].res = "ok"
                   /\ \A w \in cur'[c].members : DataOf(clients, w).ip \in banned_ips']_vars

\* during an outage a join of the active room lounge was rejected with one
\* error and changed nothing
JoinRejectedInOutage ==
  /\ ~db_up
  /\ cur["c2"].kind = "join_room" /\ cur["c2"].res = "refused"
  /\ IsActive(db_rooms, Lounge) /\ <<NBo, Lounge>> \notin db_user_rooms
  /\ Lounge \notin Get(user_rooms, NBo, {})
  /\ AtBase(stack["c2"]) /\ OneError(flog["c2"], "c2")


(***************************************************************************)
(* Specification SpecReap: three sessions; once all have registered, c1    *)
(* and c2 go away, the heartbeat sweeps and c3 chats in main.              *)
(***************************************************************************)
MaxReapFrames == 5

\* every connection has registered (handle_client holds its user_data)
AllIn == \A w \in Conns : reg[w]

NextReap ==
  \/ \E t \in Tasks : Resume(t) \/ Finish(t)
  \/ \E c \in Two : AllIn /\ PeerClose(c)
  \/ \E c \in Conns : nframes < MaxReapFrames /\ Register(c, NameIn(c))
  \/ nframes < MaxReapFrames /\ AllIn /\ Sweep
  \/ nframes < MaxReapFrames /\ AllIn /\ Chat("c3", Main)

SpecReap == Init /\ [][NextReap]_vars

\* C32: when the fan-out of a chat frame, or a liveness sweep, has ended, every
\* session to which its send or ping failed is out of the session table.
FailedSendIsReaped ==
  \A t \in Tasks :
    (cur[t].kind \in {"chat", "sweep"} /\ AtBase(stack[t]))
    => \A i \in DOMAIN flog[t] :
         (flog[t][i].via = "fanout" /\ ~flog[t][i].ok) => ~InClients(flog[t][i].to)


(***************************************************************************)
(* Specification SpecGone: an admin bans a session whose peer may have     *)
(* gone away.                                                              *)
(***************************************************************************)
MaxGoneFrames == 4

NextGone ==
  \/ \E t \in Tasks : Resume(t) \/ Finish(t)
  \/ PeerClose("c2")
  \/ RecvClosed("c2")
  \/ \E c \in Two : nframes < MaxGoneFrames /\ conn[c] = "open" /\ Register(c, NameOf(c))
  \/ nframes < MaxGoneFrames /\ Admin("c1", "s1")
  \/ nframes < MaxGoneFrames /\ Ban("c1", NBo)

SpecGone == Init /\ [][NextGone]_vars

\* C33: whenever no frame is being processed the ban file holds the addresses
\* of the in-memory ban set, and no step takes an address out of either.
BanFileIsTheBanSet ==
  /\ [](Quiescent => banned_file = banned_ips)
  /\ [][banned_ips \subseteq banned_ips' /\ banned_file \subseteq banned_file']_vars


\* a name is reserved when a reserved username equals it after case-folding
Reserved(taken, name) == \E u \in taken : Lower(u) = Lower(name)

\* the first counter value from n on whose name is not reserved
FirstFree(n, taken) ==
  CHOOSE k \in n..(n + Cardinality(taken)) :
    /\ ~Reserved(taken, AutoName(k))
    /\ \A j \in n..(k - 1) : Reserved(taken, AutoName(j))

\* C34: a register frame without a username that is accepted gets the name of
\* the prefix and the first counter value, from the current one on, whose name
\* is not reserved; the counter ends above that value, so that values used by
\* two allocations differ; on a server that has registered nobody the name is
\* xsukax0001 and its rooms are main alone.
AutoNameAllocation ==
  [][\A c \in Conns :
       (cur[c] = NoFrame /\ cur'[c].kind = "register" /\ cur'[c].arg = <<>>
          /\ cur'[c].res = "ok")
       => LET k == FirstFree(user_counter, usernames) IN
          /\ DataOf(clients', c).username = AutoName(k)
          /\ user_counter' > k
          /\ user_counter' > user_counter
          /\ (nframes = 0 =>
                /\ DataOf(clients', c).username = <<"x","s","u","k","a","x","0","0","0","1">>
                /\ Get(user_rooms', AutoName(k), {}) = {Main})]_vars


(***************************************************************************)
(* Specification SpecTerminal: connections that register, go away and go   *)
(* on delivering the frames their peers had sent, under the event loop's   *)
(* scheduling.                                                             *)
(***************************************************************************)
MaxTerminalFrames == 3

NextTerminal ==
  \/ \E t \in Tasks : Resume(t) \/ Finish(t)
  \/ \E c \in Two : PeerClose(c) \/ RecvClosed(c)
  \/ \E c \in Two : nframes < MaxTerminalFrames /\ Register(c, NameOf(c))
  \/ \E c \in Two : nframes < MaxTerminalFrames /\ Dropped(c)

SpecTerminal == Init /\ [][NextTerminal]_vars /\ Scheduling

\* C35: once the websocket of a connection has been deleted from the session
\* table it is never a key of it again, and a frame taken up on a connection
\* that has registered and whose websocket is no longer in the table changes
\* neither the in-memory state nor the store.
RemovedIsTerminal ==
  /\ \A c \in Two : [](InClients(c) => [](~InClients(c) => []~InClients(c)))
  /\ [][\A c \in Conns :
          (cur[c] = NoFrame /\ cur'[c].kind # None /\ reg[c] /\ ~InClients(c))
          => (mem' = mem /\ disk' = disk)]_vars


\* C36: in every state in which the event loop can switch tasks, a username is
\* in the member set of a room exactly when the room is in the room set of the
\* username.
IndexesAreInverses ==
  \A r \in DOMAIN room_users \cup Rooms :
    \A u \in DOMAIN user_rooms \cup Get(room_users, r, {}) :
      u \in Get(room_users, r, {}) <=> r \in Get(user_rooms, u, {})

============================================================================
